---- MODULE Spec2Model ----
(***************************************************************************)
(* ModcrabFS: a case-insensitive overlay filesystem.                       *)
(*                                                                         *)
(* The model covers the VirtualFileTree (modcrabfs/src/tree.rs), the       *)
(* transformation log (modcrabfs/src/persistence.rs) and the lifecycle and *)
(* namespace callbacks of the adapter (modcrabfs/src/filesystem.rs).       *)
(*                                                                         *)
(* Names are sequences of byte values so that ASCII case folding is        *)
(* computed, not assumed.  A virtual path is [root, comps]; a real path is *)
(* the sequence of its components below "/".                               *)
(***************************************************************************)
EXTENDS Integers, Sequences, FiniteSets, Bags, TLC

VARIABLES
    tree,   \* RwLock<VirtualFileTree>: nodes, edges, free list, handles, poison flag
    cache,  \* the cache file: [kind, list]
    disk,   \* the real files below "/": real path -> [kind, data]
    phase,  \* lifecycle of the ModcrabFS value
    last,   \* history: the operation that produced this state, with what it saw before
    stale,  \* history: live handles whose node was removed after open_dir
    lock,   \* the RwLock around the tree: who holds it, and its priority policy
    thread, \* the worker threads of the kernel bridge: where each is in its callback
    ghost,  \* history: the transformations in the order the tree took them, and
            \* the tree as the last writer left it (between sessions: as it
            \* was at shutdown)
    fds     \* the descriptors of real files the process holds open, each
            \* with the real path it was opened on

vars == <<tree, cache, disk, phase, last, stale, lock, thread, ghost, fds>>

----------------------------------------------------------------------------
(* Bounds of the model *)

\* Largest number of node slots the graph may allocate.
MaxNodes == 3

\* Handle values are drawn from 0..MaxHandle (the code draws from u64).
MaxHandle == 1

\* Largest number of handles open at one time.
MaxOpen == 2

\* Largest number of values the handle generator is followed for in one
\* open_dir.
MaxDraws == 2

\* Largest number of transformations kept in the cache file.
MaxCache == 2

\* Largest number of sessions (constructions) of the filesystem.
MaxSessions == 2

\* Number of worker threads that run callbacks in parallel.
MaxThreads == 2

\* The most files the process holds open at a time.
MaxFds == 2

\* tree.rs: const MAX_HANDLE_GENERATION_TRIES: u8 = 100
MAX_HANDLE_GENERATION_TRIES == 100

----------------------------------------------------------------------------
(* Names and paths *)

n_ab == <<97, 98>>
n_Ab == <<65, 98>>
n_aB == <<97, 66>>
n_AB == <<65, 66>>
n_d  == <<100>>
n_D  == <<68>>
n_x  == <<120>>
n_g  == <<103>>
n_G  == <<71>>
n_s  == <<115>>
n_S  == <<83>>
n_n  == <<110>>
n_N  == <<78>>
n_base  == <<98>>
n_mid   == <<109>>
n_top   == <<116>>
n_extra == <<101>>
n_mnt   == <<112>>
n_link  == <<108>>
n_gone  == <<122>>
n_X     == <<88>>

\* "<VIRTUAL>", the first component of a virtual node's path.
VIRTUAL == <<60, 86, 73, 82, 84, 85, 65, 76, 62>>

\* u8::to_ascii_lowercase: only 'A'..'Z' change.
FoldChar(c) == IF c >= 65 /\ c <= 90 THEN c + 32 ELSE c

\* OsStr::to_ascii_lowercase
to_ascii_lowercase(name) == [i \in 1..Len(name) |-> FoldChar(name[i])]

FoldComps(comps) == [i \in 1..Len(comps) |-> to_ascii_lowercase(comps[i])]

\* Option<T> as a set of at most one element.
None == {}
Some(x) == {x}
The(s) == CHOOSE x \in s : TRUE

\* F(value), with the value computed once and then named.
With(value, F(_)) == The({F(v) : v \in {value}})

VP(root, comps) == [root |-> root, comps |-> comps]
RootPath  == VP(TRUE, <<>>)
EmptyPath == VP(FALSE, <<>>)

Front(s) == SubSeq(s, 1, Len(s) - 1)
Last(s)  == s[Len(s)]

\* Path::parent: None for "/" and for "".
parent(p) == IF p.comps = <<>> THEN None ELSE Some(VP(p.root, Front(p.comps)))

\* Path::file_name of a real path (a sequence of components).
file_name(real) == IF real = <<>> THEN None ELSE Some(Last(real))

\* Path::join with a relative name.
join(p, name) == VP(p.root, Append(p.comps, name))

----------------------------------------------------------------------------
(* The graph: StableDiGraph<VirtualFileData, OsString> *)

Vacant == [path |-> <<>>, kind |-> "Vacant", is_root |-> FALSE]

VirtualFileData(path, kind, is_root) == [path |-> path, kind |-> kind, is_root |-> is_root]

Bound(T) == Cardinality(DOMAIN T.nodes)

contains_node(T, i) == i \in DOMAIN T.nodes /\ T.nodes[i] # Vacant

Present(T) == {i \in DOMAIN T.nodes : T.nodes[i] # Vacant}

\* StableGraph::edges(a): the outgoing edges; none for a vacant index.
edges(T, a) == {e \in T.edges : e.source = a}

\* StableGraph::neighbors(a)
neighbors(T, a) == {e.target : e \in edges(T, a)}

\* StableGraph::add_node: the most recently vacated slot is used first.
graph_add_node(T, w) ==
    IF T.free # <<>>
    THEN [t |-> [T EXCEPT !.nodes[Head(T.free)] = w, !.free = Tail(T.free)],
          idx |-> Head(T.free)]
    ELSE [t |-> [T EXCEPT !.nodes = [i \in 0..Bound(T) |->
                                        IF i = Bound(T) THEN w ELSE T.nodes[i]]],
          idx |-> Bound(T)]

\* StableGraph::remove_node: None (no change) for a vacant index; otherwise the
\* slot is vacated, its edges go, and it becomes the head of the free list.
graph_remove_node(T, a) ==
    IF ~contains_node(T, a) THEN T
    ELSE [T EXCEPT !.nodes[a] = Vacant,
                   !.edges = {e \in T.edges : e.source # a /\ e.target # a},
                   !.free = <<a>> \o T.free]

\* StableGraph::add_edge panics when an endpoint is not a node of the graph.
graph_add_edge(T, a, b, w) ==
    IF contains_node(T, a) /\ contains_node(T, b)
    THEN [T EXCEPT !.edges = T.edges \cup {[source |-> a, target |-> b, weight |-> w]}]
    ELSE [T EXCEPT !.poisoned = TRUE]

\* The nodes a depth-first search from `from` visits (`from` itself included).
RECURSIVE Reach(_, _)
Reach(T, seen) ==
    LET more == {e.target : e \in {f \in T.edges : f.source \in seen}} \ seen
    IN IF more = {} THEN seen ELSE Reach(T, seen \cup more)

has_path_connecting(T, from, to) == to \in Reach(T, {from})

\* StableGraph::retain_nodes: slots are visited in ascending order.
RECURSIVE retain_from(_, _)
retain_from(T, i) ==
    IF i >= Bound(T) THEN T
    ELSE IF contains_node(T, i) /\ ~has_path_connecting(T, 0, i)
         THEN retain_from(graph_remove_node(T, i), i + 1)
         ELSE retain_from(T, i + 1)

\* VirtualFileTree::clear_orphans
clear_orphans(T) == retain_from(T, 0)

----------------------------------------------------------------------------
(* VirtualFileTree *)

\* VirtualFileTree::new
VirtualFileTree_new(real_root) ==
    [nodes |-> [i \in 0..0 |-> VirtualFileData(real_root, "Directory", TRUE)],
     edges |-> {},
     free |-> <<>>,
     handles |-> {},
     poisoned |-> FALSE]

RECURSIVE walk(_, _, _)
walk(T, idx, steps) ==
    IF steps = <<>> THEN Some(idx)
    ELSE LET es == {e \in edges(T, idx) : e.weight = to_ascii_lowercase(Head(steps))}
         IN IF es = {} THEN None ELSE walk(T, The(es).target, Tail(steps))

\* find_index comparing each step as written, without folding it.
RECURSIVE walk_as_written(_, _, _)
walk_as_written(T, idx, steps) ==
    IF steps = <<>> THEN Some(idx)
    ELSE LET es == {e \in edges(T, idx) : e.weight = Head(steps)}
         IN IF es = {} THEN None ELSE walk_as_written(T, The(es).target, Tail(steps))

find_index_as_written(T, p) == walk_as_written(T, 0, p.comps)

\* VirtualFileTree::find_index: the leading "/" is stripped, every step is folded.
find_index(T, p) == walk(T, 0, p.comps)

\* VirtualFileTree::contains
contains(T, p) == find_index(T, p) # None

\* VirtualFileTree::translate_path (indexing a vacant slot panics).
translate_path(T, p) ==
    IF find_index(T, p) = None \/ ~contains_node(T, The(find_index(T, p))) THEN None
    ELSE Some(T.nodes[The(find_index(T, p))].path)

\* What a label sequence resolves to: the payload, or nothing.
Resolved(T, labels) ==
    IF find_index(T, VP(TRUE, labels)) = None THEN Vacant
    ELSE T.nodes[The(find_index(T, VP(TRUE, labels)))]

\* VirtualFileTree::is_dir
is_dir(T, p) ==
    /\ find_index(T, p) # None
    /\ contains_node(T, The(find_index(T, p)))
    /\ T.nodes[The(find_index(T, p))].kind = "Directory"

\* update_child leaving an existing child as it is.
update_child_keeps_old(T, par, weight) ==
    IF T.poisoned THEN [t |-> T, idx |-> 0]
    ELSE IF file_name(weight.path) = None THEN [t |-> [T EXCEPT !.poisoned = TRUE], idx |-> 0]
    ELSE LET link == to_ascii_lowercase(The(file_name(weight.path)))
             target == {e.target : e \in {f \in edges(T, par) : f.weight = link}}
         IN IF target # {}
            THEN [t |-> T, idx |-> The(target)]
            ELSE LET added == graph_add_node(T, weight)
                 IN [t |-> graph_add_edge(added.t, par, added.idx, link), idx |-> added.idx]

\* update_child as it would be if it never looked for an existing child.
update_child_adds(T, par, weight) ==
    IF T.poisoned THEN [t |-> T, idx |-> 0]
    ELSE IF file_name(weight.path) = None THEN [t |-> [T EXCEPT !.poisoned = TRUE], idx |-> 0]
    ELSE LET link == to_ascii_lowercase(The(file_name(weight.path)))
             added == graph_add_node(T, weight)
         IN [t |-> graph_add_edge(added.t, par, added.idx, link), idx |-> added.idx]

\* VirtualFileTree::update_child: the label is the folded basename of the
\* payload's real path; an existing child with that label is overwritten in place.
update_child(T, par, weight) ==
    IF T.poisoned THEN [t |-> T, idx |-> 0]
    ELSE IF file_name(weight.path) = None THEN [t |-> [T EXCEPT !.poisoned = TRUE], idx |-> 0]
    ELSE LET link == to_ascii_lowercase(The(file_name(weight.path)))
             target == {e.target : e \in {f \in edges(T, par) : f.weight = link}}
         IN IF target # {}
            THEN [t |-> [T EXCEPT !.nodes[The(target)] = weight], idx |-> The(target)]
            ELSE LET added == graph_add_node(T, weight)
                 IN [t |-> graph_add_edge(added.t, par, added.idx, link), idx |-> added.idx]

\* VirtualFileTree::remove_file
remove_file(T, p) ==
    IF find_index(T, p) = None THEN [t |-> T, res |-> "NotFound", data |-> Vacant]
    ELSE LET node == The(find_index(T, p))
         IN IF ~contains_node(T, node)
            THEN [t |-> [T EXCEPT !.poisoned = TRUE], res |-> "Panic", data |-> Vacant]
            ELSE [t |-> clear_orphans(graph_remove_node(T, node)),
                  res |-> "Ok",
                  data |-> T.nodes[node]]

\* move_file as it would be if it linked the node under the final component
\* of new_path.
move_file_renames(T, old_path, new_path) ==
    LET removed == remove_file(T, old_path)
    IN IF removed.res # "Ok" THEN [t |-> removed.t, res |-> removed.res]
       ELSE IF parent(new_path) = None \/ find_index(removed.t, The(parent(new_path))) = None
            THEN [t |-> removed.t, res |-> "NotFound"]
            ELSE LET new_parent == The(find_index(removed.t, The(parent(new_path))))
                     added == graph_add_node(removed.t, removed.data)
                     put == graph_add_edge(added.t, new_parent, added.idx,
                                           to_ascii_lowercase(Last(new_path.comps)))
                 IN [t |-> put, res |-> IF put.poisoned THEN "Panic" ELSE "Ok"]

\* VirtualFileTree::move_file
move_file(T, old_path, new_path) ==
    LET removed == remove_file(T, old_path)
    IN IF removed.res # "Ok" THEN [t |-> removed.t, res |-> removed.res]
       ELSE IF parent(new_path) = None \/ find_index(removed.t, The(parent(new_path))) = None
            THEN [t |-> removed.t, res |-> "NotFound"]
            ELSE LET new_parent == The(find_index(removed.t, The(parent(new_path))))
                     put == update_child(removed.t, new_parent, removed.data)
                 IN [t |-> put.t, res |-> IF put.t.poisoned THEN "Panic" ELSE "Ok"]

----------------------------------------------------------------------------
(* Reading the backing directories *)

File(data) == [kind |-> "RegularFile", data |-> data]
Dir == [kind |-> "Directory", data |-> ""]
Link(target) == [kind |-> "Symlink", data |-> target]

\* Path::canonicalize: fails on a path that does not exist and follows a
\* symbolic link to the path it names.  The backing directories have links at
\* the final component only, and none to a link.
canonicalize(d, path) ==
    IF path \notin DOMAIN d THEN None
    ELSE IF d[path].kind # "Symlink" THEN Some(path)
    ELSE IF d[path].data \in DOMAIN d THEN Some(d[path].data)
    ELSE None

\* The position of a name in a directory-stream order.
Rank(ord, name) == CHOOSE i \in 1..Len(ord) : ord[i] = name

RECURSIVE in_order(_, _)
in_order(S, ord) ==
    IF S = {} THEN <<>>
    ELSE LET m == CHOOSE x \in S : \A y \in S : Rank(ord, Last(x)) <= Rank(ord, Last(y))
         IN <<m>> \o in_order(S \ {m}, ord)

is_real_dir(d, path) == path \in DOMAIN d /\ d[path].kind = "Directory"

Children(d, path) == {q \in DOMAIN d : Len(q) = Len(path) + 1 /\ Front(q) = path}

\* read_dir: the entries of a real directory, in the order the directory
\* stream delivers them, each with its full path and its d_type.
read_dir(d, path, ord) ==
    LET listing == in_order(Children(d, path), ord)
    IN [i \in 1..Len(listing) |-> VirtualFileData(listing[i], d[listing[i]].kind, FALSE)]

\* query_file_type: lstat of a real path.
query_file_type(d, real) == IF real \in DOMAIN d THEN Some(d[real].kind) ELSE None

\* The loop of map_directory: items are popped from the end of each listing and
\* a directory is descended into as soon as it has been installed.
RECURSIVE map_items(_, _, _, _, _)
map_items(T, d, items, root, ord) ==
    IF items = <<>> THEN T
    ELSE With(update_child(T, root, Last(items)), LAMBDA put :
            IF Last(items).kind = "Directory"
            THEN With(map_items(put.t, d, read_dir(d, Last(items).path, ord), put.idx, ord),
                      LAMBDA below : map_items(below, d, Front(items), root, ord))
            ELSE map_items(put.t, d, Front(items), root, ord))

\* VirtualFileTree::map_directory
map_directory(T, d, path, attach_point, ord) ==
    IF ~is_real_dir(d, path) THEN [t |-> T, res |-> "Io"]
    ELSE LET at == IF attach_point = None THEN 0 ELSE The(attach_point)
             done == map_items(T, d, read_dir(d, path, ord), at, ord)
         IN [t |-> done, res |-> IF done.poisoned THEN "Panic" ELSE "Ok"]

\* VirtualFileTree::map_file
map_file(T, d, virt, real) ==
    IF parent(virt) = None THEN [t |-> T, res |-> "InvalidInput"]
    ELSE IF find_index(T, The(parent(virt))) = None THEN [t |-> T, res |-> "NotFound"]
    ELSE IF query_file_type(d, real) = None THEN [t |-> T, res |-> "Io"]
    ELSE LET put == update_child(T, The(find_index(T, The(parent(virt)))),
                                 VirtualFileData(real, The(query_file_type(d, real)), FALSE))
         IN [t |-> put.t, res |-> IF put.t.poisoned THEN "Panic" ELSE "Ok"]

\* VirtualFileTree::add_node
add_node(T, virt) ==
    IF parent(virt) = None THEN [t |-> T, res |-> "InvalidInput", idx |-> 0]
    ELSE IF find_index(T, The(parent(virt))) = None THEN [t |-> T, res |-> "NotFound", idx |-> 0]
    ELSE LET put == update_child(T, The(find_index(T, The(parent(virt)))),
                                 VirtualFileData(<<VIRTUAL>> \o virt.comps, "Directory", FALSE))
         IN [t |-> put.t, res |-> IF put.t.poisoned THEN "Panic" ELSE "Ok", idx |-> put.idx]

HandleKeys(T) == {e.handle : e \in T.handles}

\* The loop of open_dir: `draws` are the values the generator delivers, in
\* order; the first one whose entry is vacant is the handle.  None stands for
\* the panic after MAX_HANDLE_GENERATION_TRIES occupied draws.
RECURSIVE generate_handle(_, _, _)
generate_handle(T, draws, tries) ==
    IF tries = MAX_HANDLE_GENERATION_TRIES \/ draws = <<>> THEN None
    ELSE IF Head(draws) \notin HandleKeys(T) THEN Some(Head(draws))
    ELSE generate_handle(T, Tail(draws), tries + 1)

\* open_dir as it would be with HashMap::insert on the first value drawn.
open_dir_first_draw(T, p, draws) ==
    IF find_index(T, p) = None THEN [t |-> T, res |-> "NotFound", handle |-> 0]
    ELSE [t |-> [T EXCEPT !.handles = {e \in T.handles : e.handle # Head(draws)} \cup
                            {[handle |-> Head(draws), node |-> The(find_index(T, p))]}],
          res |-> "Ok", handle |-> Head(draws)]

\* VirtualFileTree::open_dir
open_dir(T, p, draws) ==
    IF find_index(T, p) = None THEN [t |-> T, res |-> "NotFound", handle |-> 0]
    ELSE IF generate_handle(T, draws, 0) = None
    THEN [t |-> [T EXCEPT !.poisoned = TRUE], res |-> "Panic", handle |-> 0]
    ELSE [t |-> [T EXCEPT !.handles = T.handles \cup
                            {[handle |-> The(generate_handle(T, draws, 0)),
                              node |-> The(find_index(T, p))]}],
          res |-> "Ok", handle |-> The(generate_handle(T, draws, 0))]

\* DirectoryEntry
DirectoryEntry(name, kind) == [name |-> name, kind |-> kind]

\* view_dir as it would be if it listed the labels of the edges.
view_dir_labels(T, handle) ==
    IF handle \notin HandleKeys(T) THEN [res |-> "NotFound", entries |-> EmptyBag]
    ELSE LET dir == The({e.node : e \in {f \in T.handles : f.handle = handle}})
             entry(e) == DirectoryEntry(e.weight, T.nodes[e.target].kind)
         IN [res |-> "Ok",
             entries |-> [x \in {entry(e) : e \in edges(T, dir)} |->
                             Cardinality({e \in edges(T, dir) : entry(e) = x})]]

\* VirtualFileTree::view_dir: one entry for each outgoing edge of the handle's
\* node; the Vec is kept as a bag, its order being the graph's.
view_dir(T, handle) ==
    IF handle \notin HandleKeys(T) THEN [res |-> "NotFound", entries |-> EmptyBag]
    ELSE LET dir == The({e.node : e \in {f \in T.handles : f.handle = handle}})
             entry(e) == DirectoryEntry(The(file_name(T.nodes[e.target].path)),
                                        T.nodes[e.target].kind)
         IN IF \E e \in edges(T, dir) : file_name(T.nodes[e.target].path) = None
            THEN [res |-> "InvalidInput", entries |-> EmptyBag]
            ELSE [res |-> "Ok",
                  entries |-> [x \in {entry(e) : e \in edges(T, dir)} |->
                                  Cardinality({e \in edges(T, dir) : entry(e) = x})]]

\* close_dir as it would be if it emptied the table.
close_dir_all(T, handle) == [T EXCEPT !.handles = {}]

\* VirtualFileTree::close_dir
close_dir(T, handle) == [T EXCEPT !.handles = {e \in T.handles : e.handle # handle}]

\* VirtualFileTree::is_dir_open
is_dir_open(T, handle) == handle \in HandleKeys(T)

----------------------------------------------------------------------------
(* The transformation log: persistence.rs *)

\* VirtualFileTransformation::Deletion { target }; the target is kept in both
\* fields so that the two variants are records of one shape.
Deletion(target) == [type |-> "Deletion", from |-> target, to |-> target]

\* VirtualFileTransformation::Relocation { from, to }
Relocation(from, to) == [type |-> "Relocation", from |-> from, to |-> to]

\* VirtualFileTransformation::apply
apply(tr, T) ==
    IF tr.type = "Deletion"
    THEN [t |-> remove_file(T, tr.from).t, res |-> remove_file(T, tr.from).res]
    ELSE move_file(T, tr.from, tr.to)

\* VirtualFileTransformation::is_valid
is_valid(tr, T) ==
    IF tr.type = "Deletion" THEN contains(T, tr.from)
    ELSE contains(T, tr.from) /\ ~contains(T, tr.to)

----------------------------------------------------------------------------
(* The adapter: filesystem.rs *)

\* The ModcrabFS value together with the files it works on; `shadowed` is the
\* canonical path of the mountpoint, held open from before the mount.
ModcrabFS(surf, shadow, T, c, d) ==
    [surface |-> surf, shadowed |-> shadow, tree |-> T, cache |-> c, disk |-> d]

\* The cache file: absent, holding bytes that do not deserialize (an empty file
\* is one), or holding a serialized list; or a path below a directory that
\* does not exist, where no file can be made.
NoCache == [kind |-> "absent", list |-> <<>>]
BadCache == [kind |-> "invalid", list |-> <<>>]
NoCacheDir == [kind |-> "unreachable", list |-> <<>>]

\* ModcrabFS::read_cache
read_cache(c) ==
    IF c.kind \in {"absent", "unreachable"} THEN [res |-> "NotFound", list |-> <<>>]
    ELSE IF c.kind = "invalid" THEN [res |-> "InvalidData", list |-> <<>>]
    ELSE [res |-> "Ok", list |-> c.list]

\* ModcrabFS::update_cache
update_cache(transformations) == [kind |-> "valid", list |-> transformations]

\* The loop of apply_cache: the first failure ends it.
RECURSIVE apply_each(_, _)
apply_each(T, cached) ==
    IF cached = <<>> THEN [t |-> T, res |-> "Ok"]
    ELSE With(apply(Head(cached), T), LAMBDA done :
            IF done.res # "Ok" THEN done ELSE apply_each(done.t, Tail(cached)))

\* ModcrabFS::apply_cache
apply_cache(fs) ==
    With(SelectSeq(read_cache(fs.cache).list, LAMBDA tr : is_valid(tr, fs.tree)),
         LAMBDA cached :
            With(apply_each(fs.tree, cached), LAMBDA done :
                IF done.res # "Ok"
                THEN [fs |-> [fs EXCEPT !.tree = done.t], res |-> done.res]
                ELSE [fs |-> [fs EXCEPT !.tree = done.t, !.cache = update_cache(cached)],
                      res |-> "Ok"]))

\* transform as it would be if it wrote the cache before applying.
transform_logs_first(fs, transformation) ==
    With(apply(transformation, fs.tree), LAMBDA done :
        LET read == read_cache(fs.cache)
        IN IF read.res = "InvalidData"
           THEN [fs |-> [fs EXCEPT !.tree = done.t], res |-> "InvalidData"]
           ELSE [fs |-> [fs EXCEPT !.tree = done.t,
                                   !.cache = update_cache(Append(read.list, transformation))],
                 res |-> done.res])

\* ModcrabFS::transform
transform(fs, transformation) ==
    With(apply(transformation, fs.tree), LAMBDA done :
        LET read == read_cache(fs.cache)
        IN IF done.res # "Ok" THEN [fs |-> [fs EXCEPT !.tree = done.t], res |-> done.res]
           ELSE IF read.res = "InvalidData"
                THEN [fs |-> [fs EXCEPT !.tree = done.t], res |-> "InvalidData"]
                ELSE [fs |-> [fs EXCEPT !.tree = done.t,
                                        !.cache = update_cache(Append(read.list,
                                                                      transformation))],
                      res |-> "Ok"])

\* The loops over the layers of an overlay in new and attach: a layer that
\* does not canonicalize is skipped, a failure of map_directory ends the loop.
RECURSIVE map_layers(_, _, _, _, _)
map_layers(T, d, overlay, attach_point, ord) ==
    IF overlay = <<>> THEN [t |-> T, res |-> "Ok"]
    ELSE IF canonicalize(d, Head(overlay)) = None
         THEN map_layers(T, d, Tail(overlay), attach_point, ord)
         ELSE With(map_directory(T, d, The(canonicalize(d, Head(overlay))), attach_point, ord),
                   LAMBDA done :
                 IF done.res # "Ok" THEN done
                 ELSE map_layers(done.t, d, Tail(overlay), attach_point, ord))

\* What new leaves when it returns an error: no filesystem, and the cache
\* file as it is by then.
NoFS(c, d, res) ==
    [fs |-> ModcrabFS(<<>>, <<>>, VirtualFileTree_new(<<>>), c, d), res |-> res]

\* The cache file after new has tried to create it.
created(c) == IF c.kind = "absent" THEN BadCache ELSE c

\* new as it would be without the comparison of mountpoint and surface.
new_checks_no_compare(d, mountpoint, c, overlay) ==
    IF overlay = <<>> THEN NoFS(c, d, "Other")
    ELSE IF canonicalize(d, Last(overlay)) = None THEN NoFS(c, d, "NotFound")
    ELSE IF canonicalize(d, mountpoint) = None THEN NoFS(c, d, "NotFound")
    ELSE IF ~is_real_dir(d, The(canonicalize(d, Last(overlay))))
    THEN NoFS(created(c), d, "Panic")
    ELSE IF created(c).kind = "unreachable" THEN NoFS(created(c), d, "NotFound")
    ELSE IF ~is_real_dir(d, The(canonicalize(d, mountpoint)))
    THEN NoFS(created(c), d, "ENOTDIR")
    ELSE NoFS(created(c), d, "Ok")

\* ModcrabFS::new up to the construction of the value: the checks of the
\* arguments, in the order the code makes them.
new_checks(d, mountpoint, c, overlay) ==
    IF overlay = <<>> THEN NoFS(c, d, "Other")
    ELSE IF canonicalize(d, Last(overlay)) = None THEN NoFS(c, d, "NotFound")
    ELSE IF canonicalize(d, mountpoint) = None THEN NoFS(c, d, "NotFound")
    ELSE IF canonicalize(d, mountpoint) = canonicalize(d, Last(overlay))
    THEN NoFS(c, d, "InvalidInput")
    ELSE IF ~is_real_dir(d, The(canonicalize(d, Last(overlay))))
    THEN NoFS(created(c), d, "Panic")
    ELSE IF created(c).kind = "unreachable" THEN NoFS(created(c), d, "NotFound")
    ELSE IF ~is_real_dir(d, The(canonicalize(d, mountpoint)))
    THEN NoFS(created(c), d, "ENOTDIR")
    ELSE NoFS(created(c), d, "Ok")

\* The tree new has built when it calls apply_cache: the lower layers mapped.
fresh_tree(d, overlay, ord) ==
    map_layers(VirtualFileTree_new(The(canonicalize(d, Last(overlay)))), d,
               Front(overlay), None, ord)

\* ModcrabFS::new
ModcrabFS_new(d, mountpoint, c, overlay, ord) ==
    With(new_checks(d, mountpoint, c, overlay), LAMBDA checked :
        IF checked.res # "Ok" THEN checked
        ELSE With(fresh_tree(d, overlay, ord), LAMBDA lower :
                IF lower.res # "Ok" THEN NoFS(created(c), d, lower.res)
                ELSE apply_cache(ModcrabFS(The(canonicalize(d, Last(overlay))),
                                           The(canonicalize(d, mountpoint)), lower.t,
                                           created(c), d))))

\* attach as it would be if it mapped the layers at the root.
attach_at_root(fs, attach_point, overlay, ord) ==
    With(IF find_index(fs.tree, attach_point) = None
         THEN add_node(fs.tree, attach_point)
         ELSE [t |-> fs.tree, res |-> "Ok", idx |-> The(find_index(fs.tree, attach_point))],
         LAMBDA at :
            IF at.res # "Ok" THEN [fs |-> [fs EXCEPT !.tree = at.t], res |-> at.res]
            ELSE With(map_layers(at.t, fs.disk, overlay, None, ord), LAMBDA done :
                    [fs |-> [fs EXCEPT !.tree = done.t], res |-> done.res]))

\* ModcrabFS::attach
attach(fs, attach_point, overlay, ord) ==
    With(IF find_index(fs.tree, attach_point) = None
         THEN add_node(fs.tree, attach_point)
         ELSE [t |-> fs.tree, res |-> "Ok", idx |-> The(find_index(fs.tree, attach_point))],
         LAMBDA at :
            IF at.res # "Ok" THEN [fs |-> [fs EXCEPT !.tree = at.t], res |-> at.res]
            ELSE With(map_layers(at.t, fs.disk, overlay, Some(at.idx), ord), LAMBDA done :
                    [fs |-> [fs EXCEPT !.tree = done.t], res |-> done.res]))

\* mount as it would be if it handed the tree to FUSE without the surface.
mount_without_surface(fs, ord) == [fs |-> fs, res |-> "Ok"]

\* ModcrabFS::mount and ModcrabFS::spawn_mount, up to the hand-over to FUSE.
mount(fs, ord) ==
    With(map_directory(fs.tree, fs.disk, fs.surface, None, ord), LAMBDA done :
        [fs |-> [fs EXCEPT !.tree = done.t], res |-> done.res])

\* ModcrabFS::register_path: the path is canonicalized, which follows a link
\* to the file it names, and mapped at its folded path below the surface.
register_path(fs, path) ==
    IF canonicalize(fs.disk, path) = None THEN [fs |-> fs, res |-> "NotFound"]
    ELSE With(The(canonicalize(fs.disk, path)), LAMBDA real :
            IF Len(real) < Len(fs.surface) \/ SubSeq(real, 1, Len(fs.surface)) # fs.surface
            THEN [fs |-> fs, res |-> "EINVAL"]
            ELSE LET virt == VP(FALSE, FoldComps(SubSeq(real, Len(fs.surface) + 1, Len(real))))
                     done == map_file(fs.tree, fs.disk, virt, real)
                 IN [fs |-> [fs EXCEPT !.tree = done.t], res |-> done.res])

\* fs::create_dir_all: every missing directory on the way to `real` is made;
\* it fails where a component exists and is not a directory.
RECURSIVE create_dir_all(_, _)
create_dir_all(d, real) ==
    IF real = <<>> \/ is_real_dir(d, real) THEN [d |-> d, res |-> "Ok"]
    ELSE IF real \in DOMAIN d THEN [d |-> d, res |-> "EEXIST"]
    ELSE LET above == create_dir_all(d, Front(real))
         IN IF above.res # "Ok" THEN [d |-> above.d, res |-> "ENOTDIR"]
            ELSE [d |-> above.d @@ (real :> Dir), res |-> "Ok"]

\* ModcrabFS::mkdir
mkdir(fs, parent_path, name) ==
    LET virt == join(parent_path, name)
        real == fs.surface \o virt.comps
    IN With(create_dir_all(fs.disk, real), LAMBDA made :
          IF made.res # "Ok" THEN [fs |-> [fs EXCEPT !.disk = made.d], res |-> made.res]
          ELSE register_path([fs EXCEPT !.disk = made.d], real))

\* unlink, had it removed the real file as well.
unlink_and_remove_real(fs, parent_path, name) ==
    With(transform(fs, Deletion(join(parent_path, name))), LAMBDA done :
        IF done.res # "Ok" THEN done
        ELSE [done EXCEPT !.fs.disk =
                 [q \in DOMAIN fs.disk \ translate_path(fs.tree, join(parent_path, name))
                    |-> fs.disk[q]]])

\* ModcrabFS::unlink
unlink(fs, parent_path, name) == transform(fs, Deletion(join(parent_path, name)))

\* ModcrabFS::rmdir
rmdir(fs, parent_path, name) == transform(fs, Deletion(join(parent_path, name)))

\* ModcrabFS::rename
rename(fs, parent_path, name, newparent_path, newname) ==
    transform(fs, Relocation(join(parent_path, name), join(newparent_path, newname)))

\* What a callback on a file's attributes or contents comes to: the code it
\* returns, the system call it issued ("" when none) and the real path the
\* call was issued on (the empty path for a call on a descriptor).
Outcome(res, sys, on) == [res |-> res, sys |-> sys, on |-> on]

NoCall(res) == Outcome(res, "", <<>>)

\* A system call on a real path fails with ENOENT where no file is.
at_path(d, sys, real) == Outcome(IF real \in DOMAIN d THEN "Ok" ELSE "ENOENT", sys, real)

\* A system call on the number passed as fh.  The number of an open virtual
\* directory was drawn by the tree and names no descriptor; any other number
\* the kernel passes is the descriptor of an open file.
at_fd(T, sys, fh) == Outcome(IF is_dir_open(T, fh) THEN "EBADF" ELSE "Ok", sys, <<>>)

\* libc_extras::io_to_libc_error: the POSIX code of an error kind.
io_to_libc_error(e) ==
    CASE e = "NotFound" -> "ENOENT"
      [] e = "InvalidInput" -> "EINVAL"
      [] OTHER -> e

\* io::Error::raw_os_error().unwrap(): an error made from an ErrorKind carries
\* no OS code, and unwrap panics on it.
raw_os_error_unwrap(e) ==
    IF e \in {"NotFound", "InvalidInput", "InvalidData", "Other"} THEN "Panic" ELSE e

\* RwLock::read().expect(..) and write().expect(..): a callback that asks for a
\* poisoned lock panics.
expect(fs, out) == IF fs.tree.poisoned THEN NoCall("Panic") ELSE out

\* ModcrabFS::real_path
real_path(fs, partial) ==
    IF translate_path(fs.tree, partial) = None THEN [res |-> "NotFound", real |-> <<>>]
    ELSE [res |-> "Ok", real |-> The(translate_path(fs.tree, partial))]

\* ModcrabFS::is_shadowing: Path::starts_with, component by component.
is_shadowing(fs, real) ==
    Len(real) >= Len(fs.shadowed) /\ SubSeq(real, 1, Len(fs.shadowed)) = fs.shadowed

\* The part chmod, chown, truncate and utimens share once they work by path:
\* the call goes through the shadowed directory's handle or to the real path.
by_path(fs, found, shadow_sys, sys) ==
    IF is_shadowing(fs, found.real) THEN at_path(fs.disk, shadow_sys, found.real)
    ELSE at_path(fs.disk, sys, found.real)

\* chmod, had it looked at fh before it asked whether the path is a directory.
chmod_fh_first(fs, path, fh) ==
    expect(fs,
        IF fh # None THEN at_fd(fs.tree, "fchmod", The(fh))
        ELSE IF is_dir(fs.tree, path) THEN NoCall("ENOTSUP")
        ELSE With(real_path(fs, path), LAMBDA found :
                IF found.res # "Ok" THEN NoCall(raw_os_error_unwrap(found.res))
                ELSE by_path(fs, found, "shadowed.chmod", "chmod")))

\* ModcrabFS::chmod
chmod(fs, path, fh) ==
    expect(fs,
        IF is_dir(fs.tree, path) THEN NoCall("ENOTSUP")
        ELSE IF fh # None THEN at_fd(fs.tree, "fchmod", The(fh))
        ELSE With(real_path(fs, path), LAMBDA found :
                IF found.res # "Ok" THEN NoCall(raw_os_error_unwrap(found.res))
                ELSE by_path(fs, found, "shadowed.chmod", "chmod")))

\* ModcrabFS::chown
chown(fs, path, fh) ==
    expect(fs,
        IF is_dir(fs.tree, path) THEN NoCall("ENOTSUP")
        ELSE IF fh # None THEN at_fd(fs.tree, "fchown", The(fh))
        ELSE With(real_path(fs, path), LAMBDA found :
                IF found.res # "Ok" THEN NoCall(io_to_libc_error(found.res))
                ELSE by_path(fs, found, "shadowed.chown", "chown")))

\* ModcrabFS::utimens
utimens(fs, path, fh) ==
    expect(fs,
        IF is_dir(fs.tree, path) THEN NoCall("ENOTSUP")
        ELSE IF fh # None THEN at_fd(fs.tree, "futimens", The(fh))
        ELSE With(real_path(fs, path), LAMBDA found :
                IF found.res # "Ok" THEN NoCall(io_to_libc_error(found.res))
                ELSE by_path(fs, found, "shadowed.utimens", "utimensat")))

\* truncate64 on a real path, and the same through the shadowed directory's
\* handle: the file is cut to no bytes; a directory cannot be cut.
cut(fs, sys, real) ==
    IF real \notin DOMAIN fs.disk THEN [fs |-> fs, out |-> Outcome("ENOENT", sys, real)]
    ELSE IF fs.disk[real].kind # "RegularFile"
         THEN [fs |-> fs, out |-> Outcome("EISDIR", sys, real)]
         ELSE [fs |-> [fs EXCEPT !.disk[real] = File("")], out |-> Outcome("Ok", sys, real)]

\* ftruncate64 on fh: the descriptor is one the kernel holds for the file at
\* `path`, which is cut where the path still leads to it.
fcut(fs, path, fh) ==
    IF is_dir_open(fs.tree, fh) THEN [fs |-> fs, out |-> Outcome("EBADF", "ftruncate64", <<>>)]
    ELSE [fs |-> IF real_path(fs, path).res = "Ok"
                 THEN cut(fs, "ftruncate64", real_path(fs, path).real).fs ELSE fs,
          out |-> Outcome("Ok", "ftruncate64", <<>>)]

\* ModcrabFS::truncate
truncate(fs, path, fh) ==
    IF fh # None THEN fcut(fs, path, The(fh))
    ELSE IF fs.tree.poisoned THEN [fs |-> fs, out |-> NoCall("Panic")]
    ELSE With(real_path(fs, path), LAMBDA found :
            IF found.res # "Ok" THEN [fs |-> fs, out |-> NoCall(io_to_libc_error(found.res))]
            ELSE IF is_shadowing(fs, found.real) THEN cut(fs, "shadowed.truncate", found.real)
            ELSE cut(fs, "truncate64", found.real))

\* VirtualFileTree::stat: attributes are made up for a Directory node, and
\* read with lstat from the real file of any other.
stat(T, d, path) ==
    IF find_index(T, path) = None THEN NoCall("ENOENT")
    ELSE IF T.nodes[The(find_index(T, path))].kind = "Directory"
         THEN Outcome("Ok", "generate_fake_attr", <<>>)
         ELSE at_path(d, "lstat", T.nodes[The(find_index(T, path))].path)

\* VirtualFileTree::fstat
fstat(T, handle) ==
    IF is_dir_open(T, handle) THEN Outcome("Ok", "generate_fake_attr", <<>>)
    ELSE Outcome("Ok", "fstat", <<>>)

\* ModcrabFS::getattr
getattr(fs, path, fh) ==
    expect(fs,
        With(real_path(fs, path), LAMBDA found :
            IF found.res = "Ok" /\ is_shadowing(fs, found.real)
            THEN at_path(fs.disk, "shadowed.stat", found.real)
            ELSE IF fh # None THEN fstat(fs.tree, The(fh))
            ELSE stat(fs.tree, fs.disk, path)))

\* ModcrabFS::opendir: the error of open_dir is unwrapped for its OS code while
\* the write guard is held, and a panic there poisons the lock.
opendir(fs, path, draws) ==
    IF fs.tree.poisoned THEN [fs |-> fs, out |-> NoCall("Panic"), handle |-> 0]
    ELSE With(open_dir(fs.tree, path, draws), LAMBDA done :
            IF done.res = "Ok"
            THEN [fs |-> [fs EXCEPT !.tree = done.t], out |-> NoCall("Ok"),
                  handle |-> done.handle]
            ELSE [fs |-> [fs EXCEPT !.tree = [done.t EXCEPT !.poisoned =
                                                 raw_os_error_unwrap(done.res) = "Panic"]],
                  out |-> NoCall(raw_os_error_unwrap(done.res)), handle |-> 0])

\* ModcrabFS::readdir: the fh 0 is refused before the tree is asked.
readdir(fs, fh) ==
    IF fh = 0 THEN NoCall("EINVAL")
    ELSE expect(fs, NoCall(io_to_libc_error(view_dir(fs.tree, fh).res)))

\* ModcrabFS::releasedir
releasedir(fs, fh) ==
    IF fs.tree.poisoned THEN [fs |-> fs, out |-> NoCall("Panic")]
    ELSE [fs |-> [fs EXCEPT !.tree = close_dir(fs.tree, fh)], out |-> NoCall("Ok")]

\* ModcrabFS::open
open(fs, path) ==
    expect(fs,
        With(real_path(fs, path), LAMBDA found :
            IF found.res # "Ok" THEN NoCall(io_to_libc_error(found.res))
            ELSE by_path(fs, found, "shadowed.open", "open")))

\* fs::read_link on a real path: EINVAL where the file is no link.
read_link(d, sys, real) ==
    IF real \in DOMAIN d /\ d[real].kind # "Symlink" THEN Outcome("EINVAL", sys, real)
    ELSE at_path(d, sys, real)

\* ModcrabFS::readlink
readlink(fs, path) ==
    expect(fs,
        With(real_path(fs, path), LAMBDA found :
            IF found.res # "Ok" THEN NoCall(io_to_libc_error(found.res))
            ELSE IF is_shadowing(fs, found.real)
                 THEN read_link(fs.disk, "shadowed.readlink", found.real)
                 ELSE read_link(fs.disk, "read_link", found.real)))

----------------------------------------------------------------------------
(* Creations under the surface directory *)

\* A system call that makes a new directory entry: EEXIST where the name is
\* taken, ENOENT or ENOTDIR where the directory above is not there.
make_entry(d, real, entry) ==
    IF real \in DOMAIN d THEN [d |-> d, res |-> "EEXIST"]
    ELSE IF Front(real) \notin DOMAIN d THEN [d |-> d, res |-> "ENOENT"]
    ELSE IF d[Front(real)].kind # "Directory" THEN [d |-> d, res |-> "ENOTDIR"]
    ELSE [d |-> d @@ (real :> entry), res |-> "Ok"]

\* ModcrabFS::contains
fs_contains(fs, virt) == contains(fs.tree, virt)

\* The part symlink, link and create share after their system call: the new
\* name is registered unless the tree holds it, and the file is stat-ed.
register_unless_contained(fs, virt, real) ==
    IF fs.tree.poisoned THEN [fs |-> fs, res |-> "Panic"]
    ELSE IF fs_contains(fs, virt) THEN [fs |-> fs, res |-> "Ok"]
    ELSE With(register_path(fs, real), LAMBDA reg :
            [fs |-> reg.fs, res |-> io_to_libc_error(reg.res)])

\* ModcrabFS::mknod: the new name is looked up in the tree first, and the
\* node is made at the real path the lookup returned.
mknod(fs, parent_path, name) ==
    IF fs.tree.poisoned THEN [fs |-> fs, res |-> "Panic", sys |-> ""]
    ELSE With(real_path(fs, join(parent_path, name)), LAMBDA found :
            IF found.res # "Ok"
            THEN [fs |-> fs, res |-> io_to_libc_error(found.res), sys |-> ""]
            ELSE With(make_entry(fs.disk, found.real, File("")), LAMBDA made :
                    IF made.res # "Ok" THEN [fs |-> fs, res |-> made.res, sys |-> "mknod"]
                    ELSE With(register_path([fs EXCEPT !.disk = made.d], found.real),
                              LAMBDA reg :
                                [fs |-> reg.fs,
                                 res |-> IF reg.res = "Ok" THEN "Ok" ELSE "Panic",
                                 sys |-> "mknod"])))

\* ModcrabFS::symlink
symlink(fs, parent_path, name, target) ==
    LET virt == join(parent_path, name)
        real == fs.surface \o virt.comps
    IN With(make_entry(fs.disk, real, Link(target)), LAMBDA made :
          IF made.res # "Ok" THEN [fs |-> fs, res |-> made.res]
          ELSE register_unless_contained([fs EXCEPT !.disk = made.d], virt, real))

\* fs::hard_link: the source is there and no directory.
hard_link(d, real, newreal) ==
    IF real \notin DOMAIN d THEN [d |-> d, res |-> "ENOENT"]
    ELSE IF d[real].kind = "Directory" THEN [d |-> d, res |-> "EPERM"]
    ELSE make_entry(d, newreal, d[real])

\* ModcrabFS::link: both real paths are taken under the surface directory,
\* and the path registered is the one linked from.
link(fs, path, newparent, newname) ==
    LET newvirt == join(newparent, newname)
        real == fs.surface \o path.comps
        newreal == fs.surface \o newvirt.comps
    IN With(hard_link(fs.disk, real, newreal), LAMBDA made :
          IF made.res # "Ok" THEN [fs |-> fs, res |-> made.res]
          ELSE register_unless_contained([fs EXCEPT !.disk = made.d], newvirt, real))

----------------------------------------------------------------------------
(* Descriptors of real files *)

\* The numbers the system gives to the files the process opens.
Fds == 3..(2 + MaxFds)

Descriptor(fd, on) == [fd |-> fd, on |-> on]

OpenFds(F) == {e.fd : e \in F}

\* The file an open descriptor is on.
FileAt(F, fd) == (CHOOSE e \in F : e.fd = fd).on

\* libc_wrappers::open: the lowest free number becomes the descriptor.
libc_open(F, real) ==
    IF Fds \subseteq OpenFds(F) THEN [fds |-> F, res |-> "EMFILE", fd |-> 0]
    ELSE LET fd == CHOOSE n \in Fds \ OpenFds(F) : \A m \in Fds \ OpenFds(F) : n <= m
         IN [fds |-> F \cup {Descriptor(fd, real)}, res |-> "Ok", fd |-> fd]

\* libc_wrappers::close
libc_close(F, fd) ==
    IF fd \notin OpenFds(F) THEN [fds |-> F, res |-> "EBADF"]
    ELSE [fds |-> {e \in F : e.fd # fd}, res |-> "Ok"]

\* File::from_raw_fd: a File that owns the descriptor.
File_from_raw_fd(fd) == [fd |-> fd]

\* Dropping a File closes the descriptor it owns.
File_drop(F, file) == libc_close(F, file.fd).fds

\* File::into_raw_fd: the File gives the descriptor up and closes nothing.
into_raw_fd(F, file) == F

\* UnmanagedFile::new
UnmanagedFile_new(fd) == [inner |-> Some(File_from_raw_fd(fd))]

\* UnmanagedFile, had it left its File to be dropped.
UnmanagedFile_drop_closes(F, file) == File_drop(F, The(file.inner))

\* Drop for UnmanagedFile: the File is taken out and turned into its raw
\* descriptor.
UnmanagedFile_drop(F, file) == into_raw_fd(F, The(file.inner))

\* A system call on the descriptor a File holds.
on_file(F, file, sys) ==
    Outcome(IF The(file.inner).fd \in OpenFds(F) THEN "Ok" ELSE "EBADF", sys, <<>>)

\* The end of a callback that worked through an UnmanagedFile: the value goes
\* out of scope on every return.
dropped(F, d, file, out) == [fds |-> UnmanagedFile_drop(F, file), d |-> d, out |-> out]

\* ModcrabFS::read: seek, then read.
read(F, d, fh) ==
    With(UnmanagedFile_new(fh), LAMBDA file :
        IF on_file(F, file, "lseek").res # "Ok" THEN dropped(F, d, file, on_file(F, file, "lseek"))
        ELSE dropped(F, d, file, on_file(F, file, "read")))

\* ModcrabFS::write: seek, then write; the bytes reach the file the descriptor
\* is on.
write(F, d, fh, data) ==
    With(UnmanagedFile_new(fh), LAMBDA file :
        IF on_file(F, file, "lseek").res # "Ok" THEN dropped(F, d, file, on_file(F, file, "lseek"))
        ELSE dropped(F, IF FileAt(F, fh) \in DOMAIN d
                        THEN [d EXCEPT ![FileAt(F, fh)].data = data] ELSE d,
                     file, on_file(F, file, "write")))

\* ModcrabFS::flush: File::flush does nothing and succeeds.
flush(F, d, fh) ==
    With(UnmanagedFile_new(fh), LAMBDA file : dropped(F, d, file, NoCall("Ok")))

\* ModcrabFS::fsync
fsync(F, d, fh, datasync) ==
    With(UnmanagedFile_new(fh), LAMBDA file :
        dropped(F, d, file, on_file(F, file, IF datasync THEN "fdatasync" ELSE "fsync")))

\* ModcrabFS::release
release(F, fh) == libc_close(F, fh)

\* ModcrabFS::open, with the descriptor it returns.
open_fd(fs, F, path) ==
    With(open(fs, path), LAMBDA out :
        IF out.res # "Ok" THEN [fds |-> F, out |-> out, fh |-> None]
        ELSE With(libc_open(F, out.on), LAMBDA opened :
                [fds |-> opened.fds, out |-> Outcome(opened.res, out.sys, out.on),
                 fh |-> IF opened.res = "Ok" THEN Some(opened.fd) ELSE None]))

\* libc::open with O_CREAT | O_EXCL
open_excl(d, F, real) ==
    With(make_entry(d, real, File("")), LAMBDA made :
        IF made.res # "Ok" THEN [d |-> d, fds |-> F, res |-> made.res, fd |-> 0]
        ELSE With(libc_open(F, real), LAMBDA opened :
                [d |-> IF opened.res = "Ok" THEN made.d ELSE d, fds |-> opened.fds,
                 res |-> opened.res, fd |-> opened.fd]))

\* ModcrabFS::create
create(fs, F, parent_path, name) ==
    LET virt == join(parent_path, name)
        real_parent == fs.surface \o parent_path.comps
        real == fs.surface \o virt.comps
    IN With(create_dir_all(fs.disk, real_parent), LAMBDA above :
          IF above.res # "Ok"
          THEN [fs |-> [fs EXCEPT !.disk = above.d], fds |-> F, res |-> above.res, fh |-> None]
          ELSE With(open_excl(above.d, F, real), LAMBDA opened :
                  IF opened.res # "Ok"
                  THEN [fs |-> [fs EXCEPT !.disk = above.d], fds |-> F, res |-> opened.res,
                        fh |-> None]
                  ELSE With(register_unless_contained([fs EXCEPT !.disk = opened.d], virt, real),
                            LAMBDA reg :
                              [fs |-> reg.fs, fds |-> opened.fds, res |-> reg.res,
                               fh |-> IF reg.res = "Ok" THEN Some(opened.fd) ELSE None])))


----------------------------------------------------------------------------
(* The backing directories and the arguments of the model *)

base    == <<n_base>>
mid     == <<n_mid>>
surface == <<n_top>>
extra   == <<n_extra>>

\* The mountpoint, a link to the surface, and a path that does not exist.
MountPoint    == <<n_mnt>>
SurfaceLink   == <<n_link>>
Missing       == <<n_gone>>

\* /b/Ab "alpha", /b/D/, /b/D/x "x"; /m/aB "beta", /m/d "file";
\* /t/AB "top", /t/D/; /e/g "gamma", /e/G "GAMMA"; /p/; /l -> /t.
DiskInit ==
    (base :> Dir) @@ (<<n_base, n_Ab>> :> File("alpha")) @@
    (<<n_base, n_D>> :> Dir) @@ (<<n_base, n_D, n_x>> :> File("x")) @@
    (mid :> Dir) @@ (<<n_mid, n_aB>> :> File("beta")) @@ (<<n_mid, n_d>> :> File("file")) @@
    (surface :> Dir) @@ (<<n_top, n_AB>> :> File("top")) @@ (<<n_top, n_D>> :> Dir) @@
    (extra :> Dir) @@ (<<n_extra, n_g>> :> File("gamma")) @@ (<<n_extra, n_G>> :> File("GAMMA")) @@
    (MountPoint :> Dir) @@ (SurfaceLink :> Link(surface))

\* Two directory-stream orders.  The order of a directory's entries decides the
\* outcome only between entries with equal folded names; of those the backing
\* directories hold /e/g and /e/G, which the two orders deliver either way round.
OrderSeq ==
    <<<<n_ab, n_Ab, n_aB, n_AB, n_d, n_D, n_x, n_g, n_G, n_s, n_S, n_n, n_N>>,
      <<n_ab, n_Ab, n_aB, n_AB, n_d, n_D, n_x, n_G, n_g, n_s, n_S, n_n, n_N>>>>

Orders == {OrderSeq[i] : i \in DOMAIN OrderSeq}

\* The entries below a real directory, at any depth.
Entries(d, layer) ==
    {q \in DOMAIN d : Len(q) > Len(layer) /\ SubSeq(q, 1, Len(layer)) = layer}

\* The components of a real path below the directory it was mapped from.
Rel(layer, q) == SubSeq(q, Len(layer) + 1, Len(q))

\* Virtual paths used as arguments of the tree's operations.
SourcePaths ==
    {RootPath, VP(TRUE, <<n_AB>>), VP(TRUE, <<n_D>>), VP(FALSE, <<n_d, n_x>>),
     VP(TRUE, <<n_S>>), VP(TRUE, <<n_s, n_g>>)}

RemovePaths == SourcePaths \cup {EmptyPath}

TargetPaths == {VP(TRUE, <<n_n>>), VP(TRUE, <<n_S, n_n>>), VP(TRUE, <<n_Ab>>)}

\* The arguments of map_directory: a layer, and the virtual path of the
\* attachment point (the root stands for None).
MapArgs ==
    {<<base, RootPath>>, <<mid, RootPath>>, <<surface, RootPath>>,
     <<extra, RootPath>>, <<extra, VP(TRUE, <<n_s>>)>>}

\* The arguments of map_file and of add_node.
FileArgs == {<<VP(TRUE, <<n_n>>), <<n_top, n_AB>>>>, <<VP(TRUE, <<n_s, n_n>>), <<n_mid, n_d>>>>}

NodeArgs == {VP(TRUE, <<n_s>>), EmptyPath}

----------------------------------------------------------------------------
(* History *)

\* Where the filesystem value is in its life, how many constructions were
\* attempted, and the order in which the directory streams deliver entries.
Phase(pos, sessions, ord) == [pos |-> pos, sessions |-> sessions, ord |-> ord]

NoSnap == [real |-> <<>>, kind |-> "", ok |-> FALSE]

Op(op, a, b, real, res, session, snap) ==
    [op |-> op, a |-> a, b |-> b, real |-> real, res |-> res, session |-> session,
     snap |-> snap]

\* No file is open.
NoDescriptors == {}

\* The worker threads.
Threads == 1..MaxThreads

\* The lock with no holder.  `prefer` is the priority policy of the RwLock,
\* which std leaves to the platform: a waiting writer does ("writers") or does
\* not ("readers") hold back new readers.
Unlocked(prefer) == [readers |-> [t \in Threads |-> 0], writer |-> 0, prefer |-> prefer]

\* A thread of the bridge between two callbacks.
Idle == [pc |-> "idle", op |-> "", a |-> RootPath, b |-> RootPath, cached |-> <<>>,
         data |-> Vacant]

\* No callback runs in parallel with another: one thread at a time.
Serial ==
    /\ lock = Unlocked("readers")
    /\ thread = [t \in Threads |-> Idle]
    /\ ghost = [applied |-> <<>>, stable |-> tree]

\* The slots an operation vacated (a slot vacated and refilled counts).
NodeOf(T, h) == The({e.node : e \in {f \in T.handles : f.handle = h}})

StaleAfter(T, gone) == stale \cup {h \in HandleKeys(T) : NodeOf(T, h) \in gone}

\* The slots remove_file(p) vacates.
RemovedBy(T, p) == Present(T) \ Present(remove_file(T, p).t)

----------------------------------------------------------------------------
(* The tree's operations, called directly *)

TreeInit ==
    /\ tree = VirtualFileTree_new(surface)
    /\ cache = NoCache
    /\ disk = DiskInit
    /\ phase = Phase("tree", 0, Head(OrderSeq))
    /\ last = Op("new", RootPath, RootPath, surface, "Ok", 0, NoSnap)
    /\ stale = {}
    /\ Serial
    /\ fds = NoDescriptors

TreeStep(T) ==
    /\ ~tree.poisoned
    /\ Bound(T) <= MaxNodes
    /\ tree' = T
    /\ UNCHANGED <<cache, disk, phase, lock, thread, ghost, fds>>

\* Some entry of the layer already resolved, at its virtual path, to a real
\* path outside the layer.
Shadows(T, d, layer, at) ==
    \E q \in Entries(d, layer) :
        LET p == VP(TRUE, at.comps \o Rel(layer, q))
        IN /\ translate_path(T, p) # None
           /\ The(translate_path(T, p)) \notin Entries(d, layer)

\* Of the tree's operations called directly, the history keeps map_directory,
\* and move_file where it is entitled to succeed.
Quiet == Op("other", RootPath, RootPath, <<>>, "Ok", 0, NoSnap)

MapDirectoryStep(layer, at, ord) ==
    /\ contains(tree, at)
    /\ LET r == map_directory(tree, disk, layer,
                              IF at = RootPath THEN None ELSE find_index(tree, at), ord)
       IN /\ TreeStep(r.t)
          /\ last' = Op("map_directory", at, at, layer, r.res, 0,
                        [NoSnap EXCEPT !.ok = Shadows(tree, disk, layer, at)])
    /\ UNCHANGED stale

MapFileStep(virt, real) ==
    /\ TreeStep(map_file(tree, disk, virt, real).t)
    /\ last' = Quiet
    /\ UNCHANGED stale

AddNodeStep(virt) ==
    /\ TreeStep(add_node(tree, virt).t)
    /\ last' = Quiet
    /\ UNCHANGED stale

RemoveFileStep(p) ==
    /\ TreeStep(remove_file(tree, p).t)
    /\ stale' = StaleAfter(tree, RemovedBy(tree, p))
    /\ last' = Quiet

\* What move_file(from, to) is entitled to: from resolves to a node other than
\* the root, the parent of to resolves, to does not.
MovePre(T, from, to) ==
    /\ translate_path(T, from) # None
    /\ find_index(T, from) # Some(0)
    /\ parent(to) # None
    /\ contains(T, The(parent(to)))
    /\ ~contains(T, to)

MoveFileStep(from, to) ==
    /\ TreeStep(move_file(tree, from, to).t)
    /\ stale' = StaleAfter(tree, RemovedBy(tree, from))
    /\ last' = IF MovePre(tree, from, to)
               THEN Op("move_file", from, to, <<>>, move_file(tree, from, to).res, 0,
                       [real |-> The(translate_path(tree, from)),
                        kind |-> tree.nodes[The(find_index(tree, from))].kind,
                        ok |-> TRUE])
               ELSE Quiet

\* open_dir, followed while the generator finds a vacant value within the
\* draws that are enumerated.
OpenDirStep(p, draws) ==
    /\ \E i \in 1..Len(draws) : draws[i] \notin HandleKeys(tree)
    /\ Cardinality(tree.handles) < MaxOpen
    /\ \E done \in {open_dir(tree, p, draws)} :
          /\ TreeStep(done.t)
          /\ stale' = IF contains(tree, p) /\ ~contains_node(tree, The(find_index(tree, p)))
                      THEN stale \cup {done.handle} ELSE stale
          /\ last' = Op("open_dir", p, p, <<>>, done.res, 0, NoSnap)

CloseDirStep(h) ==
    /\ TreeStep(close_dir(tree, h))
    /\ stale' = stale \ {h}
    /\ last' = Op("close_dir", RootPath, RootPath, <<>>, "Ok", 0,
                  [NoSnap EXCEPT !.ok = is_dir_open(tree, h)])

TMapDirectory == \E arg \in MapArgs, ord \in Orders : MapDirectoryStep(arg[1], arg[2], ord)
TMapFile == \E arg \in FileArgs : MapFileStep(arg[1], arg[2])
TAddNode == \E virt \in NodeArgs : AddNodeStep(virt)
TRemoveFile == \E p \in RemovePaths : RemoveFileStep(p)
TMoveFile == \E from \in SourcePaths, to \in TargetPaths : MoveFileStep(from, to)

TreeNext ==
    \/ TMapDirectory
    \/ TMapFile
    \/ TAddNode
    \/ TRemoveFile
    \/ TMoveFile

TreeSpec == TreeInit /\ [][TreeNext]_vars

----------------------------------------------------------------------------
(* Directory handles over a changing tree *)

Handles == 0..MaxHandle

\* The runs of the generator that are followed.
Draws == UNION {[1..n -> Handles] : n \in 1..MaxDraws}

HandleMapArgs == {<<mid, RootPath>>, <<surface, RootPath>>}

HandlePaths == {RootPath, VP(TRUE, <<n_D>>), VP(TRUE, <<n_AB>>), VP(TRUE, <<n_x>>)}

HandleMoves == {<<VP(TRUE, <<n_D>>), VP(TRUE, <<n_n>>)>>}

HMapDirectory == \E arg \in HandleMapArgs : MapDirectoryStep(arg[1], arg[2], phase.ord)
HRemoveFile == \E p \in HandlePaths \ {RootPath} : RemoveFileStep(p)
HMoveFile == \E arg \in HandleMoves : MoveFileStep(arg[1], arg[2])
HOpenDir == \E p \in HandlePaths, draws \in Draws : OpenDirStep(p, draws)
HCloseDir == \E h \in Handles : CloseDirStep(h)

HandleNext ==
    \/ HMapDirectory
    \/ HRemoveFile
    \/ HMoveFile
    \/ HOpenDir
    \/ HCloseDir

HandleSpec == TreeInit /\ [][HandleNext]_vars

----------------------------------------------------------------------------
(* The life of the filesystem: constructed, attached, mounted, unmounted *)

\* The arguments of every session, after the repository's mount test:
\* new(.., [base, mid, surface]).attach("s", [extra]).spawn_mount().
Overlay == <<base, mid, surface>>
AttachPoint == VP(FALSE, <<n_s>>)
Secondary == <<extra>>

\* The callbacks' arguments: FUSE passes the parent's absolute path and a name.
UnlinkArgs == {<<RootPath, n_AB>>, <<VP(TRUE, <<n_D>>), n_x>>, <<VP(TRUE, <<n_s>>), n_G>>}
RmdirArgs == {<<RootPath, n_D>>, <<RootPath, n_S>>}
RenameArgs ==
    {<<RootPath, n_AB, RootPath, n_n>>,
     <<RootPath, n_AB, VP(TRUE, <<n_s>>), n_n>>,
     <<VP(TRUE, <<n_D>>), n_x, RootPath, n_x>>,
     <<VP(TRUE, <<n_s>>), n_g, RootPath, n_G>>}
MkdirArgs == {<<RootPath, n_N>>, <<VP(TRUE, <<n_D>>), n_N>>}

\* Before construction and after unmount there is no tree; the variable then
\* holds the tree of a filesystem with no layers.
NoTree == VirtualFileTree_new(surface)

Init ==
    /\ tree = NoTree
    /\ cache \in {NoCache, BadCache, update_cache(<<>>)}
    /\ disk = DiskInit
    /\ phase \in {Phase("down", 0, ord) : ord \in Orders}
    /\ last = Quiet
    /\ stale = {}
    /\ Serial
    /\ fds = NoDescriptors

Self == ModcrabFS(surface, MountPoint, tree, cache, disk)

At(pos) == [phase EXCEPT !.pos = pos]

\* The real path a virtual path resolves to, or the empty path.
RealOf(T, p) == IF translate_path(T, p) = None THEN <<>> ELSE The(translate_path(T, p))

Mounted == phase.pos = "mounted" /\ ~tree.poisoned

\* A callback that ran to its end, and the state it left.
Callback(done, op, a, b) ==
    /\ tree' = done.fs.tree
    /\ cache' = done.fs.cache
    /\ disk' = done.fs.disk
    /\ last' = Op(op, a, b, RealOf(tree, a), done.res, phase.sessions, NoSnap)
    /\ UNCHANGED <<phase, stale, lock, thread, ghost, fds>>

FsNew ==
    /\ phase.pos = "down"
    /\ phase.sessions < MaxSessions
    /\ \E done \in {ModcrabFS_new(disk, MountPoint, cache, Overlay, phase.ord)} :
          /\ tree' = IF done.res = "Ok" THEN done.fs.tree ELSE NoTree
          /\ cache' = done.fs.cache
          /\ phase' = [phase EXCEPT !.pos = IF done.res = "Ok" THEN "built" ELSE "down",
                                    !.sessions = @ + 1]
    /\ UNCHANGED <<disk, last, stale, lock, thread, ghost, fds>>

FsAttach ==
    /\ phase.pos = "built"
    /\ \E done \in {attach(Self, AttachPoint, Secondary, phase.ord)} :
          /\ tree' = IF done.res = "Ok" THEN done.fs.tree ELSE NoTree
          /\ phase' = At(IF done.res = "Ok" THEN "attached" ELSE "down")
    /\ UNCHANGED <<cache, disk, last, stale, lock, thread, ghost, fds>>

FsMount ==
    /\ phase.pos = "attached"
    /\ \E done \in {mount(Self, phase.ord)} :
          /\ tree' = IF done.res = "Ok" THEN done.fs.tree ELSE NoTree
          /\ phase' = At(IF done.res = "Ok" THEN "mounted" ELSE "down")
    /\ UNCHANGED <<cache, disk, last, stale, lock, thread, ghost, fds>>

FsUnmount ==
    /\ phase.pos = "mounted"
    /\ tree' = NoTree
    /\ phase' = At("down")
    /\ UNCHANGED <<cache, disk, last, stale, lock, thread, ghost, fds>>

FsUnlink ==
    \E arg \in UnlinkArgs :
        /\ Mounted
        /\ Len(cache.list) < MaxCache
        /\ \E done \in {unlink(Self, arg[1], arg[2])} :
              Callback(done, "unlink", join(arg[1], arg[2]), join(arg[1], arg[2]))

FsRmdir ==
    \E arg \in RmdirArgs :
        /\ Mounted
        /\ Len(cache.list) < MaxCache
        /\ \E done \in {rmdir(Self, arg[1], arg[2])} :
              Callback(done, "rmdir", join(arg[1], arg[2]), join(arg[1], arg[2]))

FsRename ==
    \E arg \in RenameArgs :
        /\ Mounted
        /\ Len(cache.list) < MaxCache
        /\ \E done \in {rename(Self, arg[1], arg[2], arg[3], arg[4])} :
              Callback(done, "rename", join(arg[1], arg[2]), join(arg[3], arg[4]))

FsMkdir ==
    \E arg \in MkdirArgs :
        /\ Mounted
        /\ \E done \in {mkdir(Self, arg[1], arg[2])} :
              Callback(done, "mkdir", join(arg[1], arg[2]), join(arg[1], arg[2]))

Next ==
    \/ FsNew
    \/ FsAttach
    \/ FsMount
    \/ FsUnmount
    \/ FsUnlink
    \/ FsRmdir
    \/ FsRename
    \/ FsMkdir

Spec == Init /\ [][Next]_vars

----------------------------------------------------------------------------
(* Construction over varied arguments, and a session in which the cache *)
(* file is replaced from outside                                        *)

MountArgs == {MountPoint, surface, SurfaceLink, Missing}

OverlayArgs ==
    {<<>>, Overlay, <<Missing, mid, surface>>, <<base, mid, Missing>>,
     <<base, mid, SurfaceLink>>}

CacheArgs ==
    {NoCache, BadCache, NoCacheDir, update_cache(<<>>),
     update_cache(<<Deletion(VP(TRUE, <<n_D, n_x>>))>>)}

NewInit ==
    /\ tree = NoTree
    /\ cache \in CacheArgs
    /\ disk = DiskInit
    /\ phase \in {Phase("down", 0, ord) : ord \in Orders}
    /\ last = Quiet
    /\ stale = {}
    /\ Serial
    /\ fds = NoDescriptors

\* new(mountpoint, cache, overlay).  The history keeps the mountpoint in
\* `real`, the overlay in `snap.real` and the kind of cache file that new
\* found in `snap.kind`.
NewStep(mountpoint, overlay) ==
    /\ phase.pos = "down"
    /\ phase.sessions = 0
    /\ \E done \in {ModcrabFS_new(disk, mountpoint, cache, overlay, phase.ord)} :
          /\ tree' = IF done.res = "Ok" THEN done.fs.tree ELSE NoTree
          /\ cache' = done.fs.cache
          /\ phase' = [phase EXCEPT !.pos = IF done.res = "Ok" THEN "built" ELSE "down",
                                    !.sessions = @ + 1]
          /\ last' = Op("new", RootPath, RootPath, mountpoint, done.res, 0,
                        [real |-> overlay, kind |-> cache.kind, ok |-> FALSE])
    /\ UNCHANGED <<disk, stale, lock, thread, ghost, fds>>

NNew == \E mountpoint \in MountArgs, overlay \in OverlayArgs : NewStep(mountpoint, overlay)

\* Something other than the filesystem removes or truncates the cache file.
CacheReplaced ==
    /\ Mounted
    /\ cache.kind = "valid"
    /\ cache' \in {NoCache, BadCache}
    /\ UNCHANGED <<tree, disk, phase, last, stale, lock, thread, ghost, fds>>

\* rename onto a name that resolves, and to a place below a name that does
\* not.
NewRenames ==
    {<<VP(TRUE, <<n_D>>), n_x, RootPath, n_AB>>,
     <<VP(TRUE, <<n_D>>), n_x, VP(TRUE, <<n_gone>>), n_n>>}

NRename ==
    \E arg \in NewRenames :
        /\ Mounted
        /\ Len(cache.list) < MaxCache
        /\ \E done \in {rename(Self, arg[1], arg[2], arg[3], arg[4])} :
              Callback(done, "rename", join(arg[1], arg[2]), join(arg[3], arg[4]))

NewNext ==
    \/ NNew
    \/ FsAttach
    \/ FsMount
    \/ CacheReplaced
    \/ FsUnlink
    \/ NRename

NewSpec == NewInit /\ [][NewNext]_vars

----------------------------------------------------------------------------
(* The callbacks of a mounted filesystem on attributes, contents and *)
(* directories, one at a time                                        *)

\* The mountpoint holds a file from before the mount.
Hidden == <<n_mnt, n_x>>

ShadowDisk == DiskInit @@ (Hidden :> File("hidden"))

\* The secondary overlay of the mount test with the mountpoint as its upper
\* layer.
ShadowedSecondary == <<extra, MountPoint>>

\* The root, a file of the surface, the attach point, a file of the secondary
\* overlay, the file below the mountpoint and a name that is not there.
CallPaths ==
    {RootPath, VP(TRUE, <<n_AB>>), VP(TRUE, <<n_S>>), VP(TRUE, <<n_s, n_g>>),
     VP(TRUE, <<n_S, n_X>>), VP(TRUE, <<n_N>>)}

\* The fh the kernel passes with a path.
FhArgs == {None} \cup {Some(h) : h \in Handles}

CallInit ==
    /\ tree = NoTree
    /\ cache = update_cache(<<>>)
    /\ disk = ShadowDisk
    /\ phase \in {Phase("down", 0, ord) : ord \in Orders}
    /\ last = Quiet
    /\ stale = {}
    /\ Serial
    /\ fds = NoDescriptors

\* attach(p, layers) on the value new returned.  The history keeps the layers
\* in `snap.real` and whether p resolved in `snap.ok`.
AttachStep(p, layers) ==
    /\ phase.pos = "built"
    /\ \E done \in {attach(Self, p, layers, phase.ord)} :
          /\ tree' = IF done.res = "Ok" THEN done.fs.tree ELSE NoTree
          /\ phase' = At(IF done.res = "Ok" THEN "attached" ELSE "down")
          /\ last' = Op("attach", p, p, <<>>, done.res, phase.sessions,
                        [real |-> layers, kind |-> "", ok |-> contains(tree, p)])
    /\ UNCHANGED <<cache, disk, stale, lock, thread, ghost, fds>>

CAttach == AttachStep(AttachPoint, ShadowedSecondary)

\* The sessions followed change the mounted filesystem once: one file is cut,
\* one directory opened or one name unlinked.
Fresh ==
    /\ phase.pos = "mounted"
    /\ disk = ShadowDisk
    /\ tree.handles = {}
    /\ ~tree.poisoned
    /\ cache.list = <<>>

\* A callback that leaves the tree and the files as they are.  The history
\* keeps the fh in `snap.real` (empty when none was passed), the system call
\* issued in `snap.kind` and the real path it was issued on in `real`.
AttrStep(op, path, fh, out) ==
    /\ phase.pos = "mounted"
    /\ last' = Op(op, path, path, out.on, out.res, phase.sessions,
                  [real |-> IF fh = None THEN <<>> ELSE <<The(fh)>>, kind |-> out.sys,
                   ok |-> is_dir(tree, path)])
    /\ UNCHANGED <<tree, cache, disk, phase, stale, lock, thread, ghost, fds>>

CChmod ==
    \E path \in CallPaths, fh \in FhArgs :
        \E out \in {chmod(Self, path, fh)} : AttrStep("chmod", path, fh, out)

CChown ==
    \E path \in CallPaths, fh \in FhArgs :
        \E out \in {chown(Self, path, fh)} : AttrStep("chown", path, fh, out)

CUtimens ==
    \E path \in CallPaths, fh \in FhArgs :
        \E out \in {utimens(Self, path, fh)} : AttrStep("utimens", path, fh, out)

CTruncate ==
    \E path \in CallPaths, fh \in FhArgs :
        /\ Fresh
        /\ \E done \in {truncate(Self, path, fh)} :
              /\ disk' = done.fs.disk
              /\ last' = Op("truncate", path, path, done.out.on, done.out.res, phase.sessions,
                            [real |-> IF fh = None THEN <<>> ELSE <<The(fh)>>,
                             kind |-> done.out.sys, ok |-> is_dir(tree, path)])
        /\ UNCHANGED <<tree, cache, phase, stale, lock, thread, ghost, fds>>

CGetattr ==
    \E path \in CallPaths, fh \in FhArgs :
        \E out \in {getattr(Self, path, fh)} : AttrStep("getattr", path, fh, out)

COpen ==
    \E path \in CallPaths : \E out \in {open(Self, path)} : AttrStep("open", path, None, out)

CReadlink ==
    \E path \in CallPaths :
        \E out \in {readlink(Self, path)} : AttrStep("readlink", path, None, out)

\* opendir, the generator delivering `draws`.
COpendir ==
    \E path \in CallPaths, draws \in Draws :
        /\ Fresh
        /\ \E done \in {opendir(Self, path, draws)} :
              /\ tree' = done.fs.tree
              /\ last' = Op("opendir", path, path, <<>>, done.out.res, phase.sessions,
                            [real |-> <<>>, kind |-> "", ok |-> is_dir(tree, path)])
        /\ UNCHANGED <<cache, disk, phase, stale, lock, thread, ghost, fds>>

CUnlink == Fresh /\ FsUnlink

\* readdir(path, fh); the path is only logged.
CReaddir ==
    \E fh \in Handles :
        \E out \in {readdir(Self, fh)} : AttrStep("readdir", RootPath, Some(fh), out)

CReleasedir ==
    \E fh \in Handles :
        /\ phase.pos = "mounted"
        /\ \E done \in {releasedir(Self, fh)} :
              /\ tree' = done.fs.tree
              /\ last' = Op("releasedir", RootPath, RootPath, <<>>, done.out.res, phase.sessions,
                            [real |-> <<fh>>, kind |-> "", ok |-> is_dir_open(tree, fh)])
        /\ UNCHANGED <<cache, disk, phase, stale, lock, thread, ghost, fds>>

CallNext ==
    \/ FsNew
    \/ CAttach
    \/ FsMount
    \/ CChmod
    \/ CChown
    \/ CUtimens
    \/ CTruncate
    \/ CGetattr
    \/ COpen
    \/ CReadlink
    \/ COpendir
    \/ CUnlink
    \/ CReaddir
    \/ CReleasedir

CallSpec == CallInit /\ [][CallNext]_vars

----------------------------------------------------------------------------
(* Secondary overlays attached at varied points, under a surface that holds *)
(* a directory with the attach point's name                                *)

CollidingDisk ==
    DiskInit @@ (<<n_top, n_S>> :> Dir) @@ (<<n_top, n_S, n_G>> :> File("TOP"))

\* attach(p, layers): at a new name below the root, at a directory and at a
\* file of the lower layers, at the root, below a name that is not there; with
\* one layer, with two that hold names folding alike, with one that is missing.
AttachArgs ==
    {<<AttachPoint, Secondary>>,
     <<VP(TRUE, <<n_S>>), <<Missing, extra>>>>,
     <<AttachPoint, <<base, mid>>>>,
     <<VP(FALSE, <<n_D>>), Secondary>>,
     <<VP(FALSE, <<n_ab>>), Secondary>>,
     <<RootPath, Secondary>>,
     <<VP(FALSE, <<n_gone, n_s>>), Secondary>>}

LayerInit ==
    /\ tree = NoTree
    /\ cache = update_cache(<<>>)
    /\ disk = CollidingDisk
    /\ phase \in {Phase("down", 0, ord) : ord \in Orders}
    /\ last = Quiet
    /\ stale = {}
    /\ Serial
    /\ fds = NoDescriptors

LAttach == \E arg \in AttachArgs : AttachStep(arg[1], arg[2])

LayerNext ==
    \/ FsNew
    \/ LAttach
    \/ FsMount
    \/ FsUnlink
    \/ FsRmdir

LayerSpec == LayerInit /\ [][LayerNext]_vars

----------------------------------------------------------------------------
(* Sessions that edit names of the lower layers only, each followed by a *)
(* construction over the cache file it left                              *)

\* The lower layer b holds a directory of its own, b/n.
LowerDir == <<n_base, n_n>>

ReplayDisk == DiskInit @@ (LowerDir :> Dir)

\* Names no entry of the surface or of the secondary overlay folds to.
ReplayUnlinks == {<<VP(TRUE, <<n_D>>), n_x>>, <<RootPath, n_x>>}
ReplayRmdirs == {<<RootPath, n_N>>}
ReplayRenames ==
    {<<VP(TRUE, <<n_D>>), n_x, RootPath, n_x>>,
     <<VP(TRUE, <<n_D>>), n_x, VP(TRUE, <<n_N>>), n_x>>}

ReplayInit ==
    /\ tree = NoTree
    /\ cache = update_cache(<<>>)
    /\ disk = ReplayDisk
    /\ phase \in {Phase("down", 0, ord) : ord \in Orders}
    /\ last = Quiet
    /\ stale = {}
    /\ Serial
    /\ fds = NoDescriptors

\* A callback on a mounted filesystem whose cache file has room.
Edit(done, op, a, b) ==
    /\ Mounted
    /\ Len(cache.list) < MaxCache
    /\ Callback(done, op, a, b)

RUnlink ==
    \E arg \in ReplayUnlinks :
        \E done \in {unlink(Self, arg[1], arg[2])} :
            Edit(done, "unlink", join(arg[1], arg[2]), join(arg[1], arg[2]))

RRmdir ==
    \E arg \in ReplayRmdirs :
        \E done \in {rmdir(Self, arg[1], arg[2])} :
            Edit(done, "rmdir", join(arg[1], arg[2]), join(arg[1], arg[2]))

RRename ==
    \E arg \in ReplayRenames :
        \E done \in {rename(Self, arg[1], arg[2], arg[3], arg[4])} :
            Edit(done, "rename", join(arg[1], arg[2]), join(arg[3], arg[4]))

\* Unmount; the history keeps the tree as it was at shutdown.
RUnmount ==
    /\ phase.pos = "mounted"
    /\ tree' = NoTree
    /\ phase' = At("down")
    /\ ghost' = [ghost EXCEPT !.stable = tree]
    /\ UNCHANGED <<cache, disk, last, stale, lock, thread, fds>>

ReplayNext ==
    \/ FsNew
    \/ FsAttach
    \/ FsMount
    \/ RUnlink
    \/ RRmdir
    \/ RRename
    \/ RUnmount

ReplaySpec == ReplayInit /\ [][ReplayNext]_vars

----------------------------------------------------------------------------
(* Callbacks in parallel: the worker threads of the bridge and the lock *)

\* The threads that wait for the writer role.
WaitingWriters == {t \in Threads : thread[t].pc = "write"}

\* RwLock::read, had it been granted while a writer holds the lock.
read_granted_under_writer(L, waiting) == TRUE

\* RwLock::read: granted while no writer holds the lock and, where the
\* platform prefers writers, while none waits for it.
read_granted(L, waiting) == L.writer = 0 /\ (L.prefer = "readers" \/ waiting = {})

\* RwLock::write, had it been granted while another writer holds the lock.
write_granted_beside_writer(L) == \A u \in Threads : L.readers[u] = 0

\* RwLock::write: granted while nobody holds the lock.
write_granted(L) == L.writer = 0 /\ \A u \in Threads : L.readers[u] = 0

\* The filesystem of the mount test, mounted.
Booted ==
    mount(attach(ModcrabFS_new(DiskInit, MountPoint, update_cache(<<>>), Overlay,
                               OrderSeq[1]).fs,
                 AttachPoint, Secondary, OrderSeq[1]).fs,
          OrderSeq[1]).fs

\* The callbacks the bridge dispatches: two that read the tree and three that
\* transform it, the last a rename to a place below a name that is not there.
Call(op, a, b) == [op |-> op, a |-> a, b |-> b]

ConcCalls ==
    {Call("getattr", VP(TRUE, <<n_AB>>), RootPath),
     Call("contains", VP(TRUE, <<n_D, n_x>>), RootPath),
     Call("unlink", VP(TRUE, <<n_D, n_x>>), RootPath),
     Call("rename", VP(TRUE, <<n_AB>>), VP(TRUE, <<n_s, n_n>>)),
     Call("rename", VP(TRUE, <<n_s, n_g>>), VP(TRUE, <<n_gone, n_g>>))}

Transforming == {"unlink", "rename"}

\* The positions of a thread inside transform.
InTransform == {"write", "apply", "remove", "install", "read_cache", "update_cache", "release"}

ConcInit ==
    /\ tree = Booted.tree
    /\ cache = Booted.cache
    /\ disk = DiskInit
    /\ phase = Phase("mounted", 1, OrderSeq[1])
    /\ last = Quiet
    /\ stale = {}
    /\ lock \in {Unlocked(prefer) : prefer \in {"readers", "writers"}}
    /\ thread = [t \in Threads |-> Idle]
    /\ ghost = [applied |-> <<>>, stable |-> tree]
    /\ fds = NoDescriptors

\* The transformation a thread is carrying out.
Carried(t) ==
    IF thread[t].op = "unlink" THEN Deletion(thread[t].a)
    ELSE Relocation(thread[t].a, thread[t].b)

At_(t, pc) == [thread EXCEPT ![t].pc = pc]

\* The bridge hands a callback to an idle thread, which asks for the lock:
\* getattr and contains with tree.read(), transform with tree.write().
Begin(t, call) ==
    /\ thread[t].pc = "idle"
    /\ call.op \in Transforming =>
          Len(ghost.applied) + Cardinality({u \in Threads : thread[u].pc \in InTransform})
             < MaxCache
    /\ thread' = [thread EXCEPT ![t] =
                     [Idle EXCEPT !.pc = IF call.op \in Transforming THEN "write" ELSE "read",
                                  !.op = call.op, !.a = call.a, !.b = call.b]]
    /\ UNCHANGED <<tree, cache, disk, phase, last, stale, lock, ghost, fds>>

\* tree.read() returns its guard.  getattr goes on to real_path, which asks
\* for the reader role again while the guard of getattr lives.
AcquireRead(t) ==
    /\ thread[t].pc = "read"
    /\ read_granted(lock, WaitingWriters)
    /\ lock' = [lock EXCEPT !.readers[t] = @ + 1]
    /\ thread' = At_(t, IF thread[t].op = "getattr" THEN "real_path" ELSE "look")
    /\ UNCHANGED <<tree, cache, disk, phase, last, stale, ghost, fds>>

\* real_path inside getattr: the second guard is granted, the path translated
\* and the guard dropped.
RealPath(t) ==
    /\ thread[t].pc = "real_path"
    /\ read_granted(lock, WaitingWriters)
    /\ thread' = [thread EXCEPT ![t].pc = "stat",
                                ![t].data = Resolved(tree, thread[t].a.comps)]
    /\ UNCHANGED <<tree, cache, disk, phase, last, stale, lock, ghost, fds>>

\* tree.stat at the end of getattr, and contains: the tree is read and the
\* guard dropped on return.
Look(t) ==
    /\ thread[t].pc \in {"stat", "look"}
    /\ lock' = [lock EXCEPT !.readers[t] = @ - 1]
    /\ thread' = [thread EXCEPT ![t] = Idle]
    /\ UNCHANGED <<tree, cache, disk, phase, last, stale, ghost, fds>>

\* tree.write() in transform returns its guard.
AcquireWrite(t) ==
    /\ thread[t].pc = "write"
    /\ write_granted(lock)
    /\ lock' = [lock EXCEPT !.writer = t]
    /\ thread' = At_(t, IF thread[t].op = "unlink" THEN "apply" ELSE "remove")
    /\ UNCHANGED <<tree, cache, disk, phase, last, stale, ghost, fds>>

\* Deletion::apply: remove_file.
Apply(t) ==
    /\ thread[t].pc = "apply"
    /\ \E done \in {remove_file(tree, thread[t].a)} :
          /\ tree' = done.t
          /\ thread' = At_(t, IF done.res = "Ok" THEN "read_cache" ELSE "release")
          /\ ghost' = IF done.res = "Ok"
                      THEN [ghost EXCEPT !.applied = Append(@, Carried(t))] ELSE ghost
    /\ UNCHANGED <<cache, disk, phase, last, stale, lock, fds>>

\* Relocation::apply, the first half of move_file: the node is taken out.
Remove(t) ==
    /\ thread[t].pc = "remove"
    /\ \E done \in {remove_file(tree, thread[t].a)} :
          /\ tree' = done.t
          /\ thread' = [thread EXCEPT ![t].pc = IF done.res = "Ok" THEN "install" ELSE "release",
                                      ![t].data = done.data]
    /\ UNCHANGED <<cache, disk, phase, last, stale, lock, ghost, fds>>

\* The second half of move_file: the payload is put below the new parent.
Install(t) ==
    /\ thread[t].pc = "install"
    /\ LET above == IF parent(thread[t].b) = None THEN None
                    ELSE find_index(tree, The(parent(thread[t].b)))
       IN IF above = None
          THEN /\ thread' = At_(t, "release")
               /\ UNCHANGED <<tree, ghost>>
          ELSE /\ tree' = update_child(tree, The(above), thread[t].data).t
               /\ thread' = At_(t, "read_cache")
               /\ ghost' = [ghost EXCEPT !.applied = Append(@, Carried(t))]
    /\ UNCHANGED <<cache, disk, phase, last, stale, lock, fds>>

\* transform reads the cache file.
ReadCache(t) ==
    /\ thread[t].pc = "read_cache"
    /\ \E got \in {read_cache(cache)} :
          thread' = [thread EXCEPT ![t].pc = IF got.res = "InvalidData" THEN "release"
                                             ELSE "update_cache",
                                   ![t].cached = got.list]
    /\ UNCHANGED <<tree, cache, disk, phase, last, stale, lock, ghost, fds>>

\* transform writes the list it read with its transformation appended.
UpdateCache(t) ==
    /\ thread[t].pc = "update_cache"
    /\ cache' = update_cache(Append(thread[t].cached, Carried(t)))
    /\ thread' = At_(t, "release")
    /\ UNCHANGED <<tree, disk, phase, last, stale, lock, ghost, fds>>

\* transform returns and its guard is dropped.
Release(t) ==
    /\ thread[t].pc = "release"
    /\ lock' = [lock EXCEPT !.writer = 0]
    /\ thread' = [thread EXCEPT ![t] = Idle]
    /\ ghost' = [ghost EXCEPT !.stable = tree]
    /\ UNCHANGED <<tree, cache, disk, phase, last, stale, fds>>

TBegin == \E t \in Threads, call \in ConcCalls : Begin(t, call)
TAcquireRead == \E t \in Threads : AcquireRead(t)
TRealPath == \E t \in Threads : RealPath(t)
TLook == \E t \in Threads : Look(t)
TAcquireWrite == \E t \in Threads : AcquireWrite(t)
TApply == \E t \in Threads : Apply(t)
TRemove == \E t \in Threads : Remove(t)
TInstall == \E t \in Threads : Install(t)
TReadCache == \E t \in Threads : ReadCache(t)
TUpdateCache == \E t \in Threads : UpdateCache(t)
TRelease == \E t \in Threads : Release(t)

ConcNext ==
    \/ TBegin
    \/ TAcquireRead
    \/ TRealPath
    \/ TLook
    \/ TAcquireWrite
    \/ TApply
    \/ TRemove
    \/ TInstall
    \/ TReadCache
    \/ TUpdateCache
    \/ TRelease

ConcSpec == ConcInit /\ [][ConcNext]_vars

----------------------------------------------------------------------------
(* The creation callbacks of a mounted filesystem, one at a time *)

\* mkdir below the root and below a directory of the surface.
NewDirs == {<<RootPath, n_N>>, <<VP(TRUE, <<n_D>>), n_n>>}

\* symlink to a file of the surface, to a file of a lower layer and to a path
\* that does not exist.
NewLinks ==
    {<<RootPath, n_N, <<n_top, n_AB>>>>, <<RootPath, n_N, <<n_base, n_Ab>>>>,
     <<RootPath, n_N, Missing>>}

\* create below the root and below the attach point, which the surface does
\* not hold.
NewFiles == {<<RootPath, n_N>>, <<VP(TRUE, <<n_S>>), n_X>>}

\* mknod of a new name and of a name the tree holds.
NewNodes == {<<RootPath, n_N>>, <<RootPath, n_AB>>}

\* link from a file of the surface and from a file of the secondary overlay.
NewHardLinks == {<<VP(TRUE, <<n_AB>>), RootPath, n_N>>, <<VP(TRUE, <<n_s, n_g>>), RootPath, n_N>>}

MountedInit ==
    /\ tree = Booted.tree
    /\ cache = Booted.cache
    /\ disk = DiskInit
    /\ phase = Phase("mounted", 1, OrderSeq[1])
    /\ last = Quiet
    /\ stale = {}
    /\ Serial
    /\ fds = NoDescriptors

\* A creation callback that ran to its end.  The history keeps the path the
\* callback was given in `a`, the new name in `b`, the real path of the new
\* name under the surface in `real`, the system call issued in `snap.kind`,
\* the descriptor returned in `snap.real`, and in `snap.ok` whether the
\* directory above the new name resolved and the new name did not.
Creation(done, F, op, a, b, sys, fh) ==
    /\ Mounted
    /\ tree' = done.fs.tree
    /\ cache' = done.fs.cache
    /\ disk' = done.fs.disk
    /\ fds' = F
    /\ last' = Op(op, a, b, surface \o b.comps, done.res, phase.sessions,
                  [real |-> IF fh = None THEN <<>> ELSE <<The(fh)>>, kind |-> sys,
                   ok |-> contains(tree, The(parent(b))) /\ ~contains(tree, b)])
    /\ UNCHANGED <<phase, stale, lock, thread, ghost>>

KMkdir ==
    \E arg \in NewDirs : \E done \in {mkdir(Self, arg[1], arg[2])} :
        Creation(done, fds, "mkdir", join(arg[1], arg[2]), join(arg[1], arg[2]), "mkdir", None)

KSymlink ==
    \E arg \in NewLinks : \E done \in {symlink(Self, arg[1], arg[2], arg[3])} :
        Creation(done, fds, "symlink", join(arg[1], arg[2]), join(arg[1], arg[2]), "symlink",
                 None)

KCreate ==
    \E arg \in NewFiles : \E done \in {create(Self, fds, arg[1], arg[2])} :
        Creation(done, done.fds, "create", join(arg[1], arg[2]), join(arg[1], arg[2]), "open",
                 done.fh)

KMknod ==
    \E arg \in NewNodes : \E done \in {mknod(Self, arg[1], arg[2])} :
        Creation(done, fds, "mknod", join(arg[1], arg[2]), join(arg[1], arg[2]), done.sys, None)

KLink ==
    \E arg \in NewHardLinks : \E done \in {link(Self, arg[1], arg[2], arg[3])} :
        Creation(done, fds, "link", arg[1], join(arg[2], arg[3]), "link", None)

CreateNext ==
    \/ KMkdir
    \/ KSymlink
    \/ KCreate
    \/ KMknod
    \/ KLink

CreateSpec == MountedInit /\ [][CreateNext]_vars

----------------------------------------------------------------------------
(* The callbacks of a mounted filesystem on open files, one at a time *)

\* A file of the surface, a file of the secondary overlay and a name that is
\* not there.
OpenPaths == {VP(TRUE, <<n_AB>>), VP(TRUE, <<n_s, n_g>>), VP(TRUE, <<n_N>>)}

FileIO == {"read", "write", "flush", "fsync"}

\* A callback on the descriptor fh, which the bridge got from open or create
\* and has not released.  The history keeps fh in `snap.real`, the file it is
\* on in `real` and the system call issued in `snap.kind`.
FdStep(op, fh, F, d, out) ==
    /\ Mounted
    /\ fds' = F
    /\ disk' = d
    /\ last' = Op(op, RootPath, RootPath, FileAt(fds, fh), out.res, phase.sessions,
                  [real |-> <<fh>>, kind |-> out.sys, ok |-> FALSE])
    /\ UNCHANGED <<tree, cache, phase, stale, lock, thread, ghost>>

DOpen ==
    \E path \in OpenPaths : \E done \in {open_fd(Self, fds, path)} :
        /\ Mounted
        /\ fds' = done.fds
        /\ last' = Op("open", path, path, done.out.on, done.out.res, phase.sessions,
                      [real |-> IF done.fh = None THEN <<>> ELSE <<The(done.fh)>>,
                       kind |-> done.out.sys, ok |-> FALSE])
        /\ UNCHANGED <<tree, cache, disk, phase, stale, lock, thread, ghost>>

DCreate ==
    \E done \in {create(Self, fds, RootPath, n_N)} :
        Creation(done, done.fds, "create", join(RootPath, n_N), join(RootPath, n_N), "open",
                 done.fh)

DRead ==
    \E fh \in OpenFds(fds) : \E done \in {read(fds, disk, fh)} :
        FdStep("read", fh, done.fds, done.d, done.out)

DWrite ==
    \E fh \in OpenFds(fds) : \E done \in {write(fds, disk, fh, "w")} :
        FdStep("write", fh, done.fds, done.d, done.out)

DFlush ==
    \E fh \in OpenFds(fds) : \E done \in {flush(fds, disk, fh)} :
        FdStep("flush", fh, done.fds, done.d, done.out)

DFsync ==
    \E fh \in OpenFds(fds), datasync \in BOOLEAN :
        \E done \in {fsync(fds, disk, fh, datasync)} :
            FdStep("fsync", fh, done.fds, done.d, done.out)

DRelease ==
    \E fh \in OpenFds(fds) : \E done \in {release(fds, fh)} :
        FdStep("release", fh, done.fds, disk, NoCall(done.res))

FdNext ==
    \/ DOpen
    \/ DCreate
    \/ DRead
    \/ DWrite
    \/ DFlush
    \/ DFsync
    \/ DRelease

FdSpec == MountedInit /\ [][FdNext]_vars

----------------------------------------------------------------------------
(* Properties of the tree *)

\* The two cases of a byte.
CaseVariants(c) ==
    IF c >= 97 /\ c <= 122 THEN {c, c - 32}
    ELSE IF c >= 65 /\ c <= 90 THEN {c, c + 32} ELSE {c}

RECURSIVE NamePerms(_)
NamePerms(name) ==
    IF name = <<>> THEN {<<>>}
    ELSE {<<c>> \o rest : c \in CaseVariants(Head(name)), rest \in NamePerms(Tail(name))}

\* Every case-permutation of a sequence of components.
RECURSIVE PathPerms(_)
PathPerms(comps) ==
    IF comps = <<>> THEN {<<>>}
    ELSE {<<n>> \o rest : n \in NamePerms(Head(comps)), rest \in PathPerms(Tail(comps))}

\* The label sequences of the paths that lead from a node and enter no node
\* twice (`seen` holds the nodes entered so far).
RECURSIVE PathsFrom(_, _, _)
PathsFrom(T, idx, seen) ==
    {<<>>} \cup
    UNION {{<<e.weight>> \o r : r \in PathsFrom(T, e.target, seen \cup {e.target})} :
           e \in {f \in edges(T, idx) : f.target \notin seen}}

\* C1: a virtual path that resolves, and each of its ASCII case-permutations,
\* with or without a leading "/", resolve through find_index to the same node.
\* The paths are those that enter no node twice, which are all paths of a tree.
C1_CaseInsensitiveLookup ==
    \A lp \in PathsFrom(tree, 0, {0}) :
        LET found == {find_index(tree, VP(r, p)) : p \in PathPerms(lp), r \in BOOLEAN}
        IN found # {None} => (None \notin found /\ Cardinality(found) = 1)

\* A file stored as "aB" is found as "Ab", and one stored as "d" is found as "D".
C1_Witness ==
    /\ translate_path(tree, VP(TRUE, <<n_Ab>>)) = Some(<<n_mid, n_aB>>)
    /\ translate_path(tree, VP(FALSE, <<n_D>>)) = Some(<<n_mid, n_d>>)

\* Every entry of the layer resolves, at its virtual path below the attachment
\* point, to one node that carries a real path of that layer with the same
\* folded relative path, and the kind that path has on disk.
LaterLayerWins(T, d, layer, at) ==
    \A q \in Entries(d, layer) :
        LET p == VP(TRUE, at.comps \o Rel(layer, q))
            same == {q2 \in Entries(d, layer) :
                        FoldComps(Rel(layer, q2)) = FoldComps(Rel(layer, q))}
        IN /\ translate_path(T, p) # None
           /\ The(translate_path(T, p)) \in same
           /\ T.nodes[The(find_index(T, p))].kind = d[The(translate_path(T, p))].kind
           /\ Cardinality({e \in edges(T, The(find_index(T, The(parent(p))))) :
                              e.weight = to_ascii_lowercase(Last(p.comps))}) = 1

\* C2: when map_directory maps a layer over earlier ones, a folded component
\* present in both resolves to the later layer's real path and kind, through
\* one node.
C2_Shadowing ==
    (last.op = "map_directory" /\ last.res = "Ok") =>
        LaterLayerWins(tree, disk, last.real, last.a)

\* The surface was mapped over mid: "ab" and "d" had mid's paths and now carry
\* the surface's paths and kinds.
C2_Witness ==
    /\ last.op = "map_directory" /\ last.res = "Ok" /\ last.real = surface
    /\ last.snap.ok
    /\ translate_path(tree, VP(TRUE, <<n_ab>>)) = Some(<<n_top, n_AB>>)
    /\ translate_path(tree, VP(TRUE, <<n_d>>)) = Some(<<n_top, n_D>>)
    /\ is_dir(tree, VP(TRUE, <<n_d>>))

\* The label on the edge that leads to the node a path resolves to.
LabelAt(T, p) ==
    {e.weight : e \in {f \in edges(T, The(find_index(T, The(parent(p))))) :
                          f.target = The(find_index(T, p))}}

\* C4: move_file(from, to), with from resolving to a node other than the root,
\* the parent of to resolving and to not resolving, makes to resolve to a node
\* with the real path and kind from had, under the folded final component of
\* to, and makes from not resolve.
C4_MoveFile ==
    (last.op = "move_file" /\ last.snap.ok) =>
        /\ last.res = "Ok"
        /\ translate_path(tree, last.b) = Some(last.snap.real)
        /\ tree.nodes[The(find_index(tree, last.b))].kind = last.snap.kind
        /\ LabelAt(tree, last.b) = {to_ascii_lowercase(Last(last.b.comps))}
        /\ ~contains(tree, last.a)

\* C13: the label of every edge is the ASCII-folded final component of the
\* real path of the node the edge leads to (for a node made by add_node, of
\* the virtual path it was declared at), after move_file as well.
C13_EdgeLabels ==
    \A e \in tree.edges :
        /\ contains_node(tree, e.target)
        /\ file_name(tree.nodes[e.target].path) # None
        /\ e.weight = to_ascii_lowercase(The(file_name(tree.nodes[e.target].path)))

\* move_file has just linked a node under a new parent.
C13_Witness ==
    /\ last.op = "move_file" /\ last.res = "Ok"
    /\ \E e \in tree.edges : tree.nodes[e.target].path = last.snap.real

\* The payloads of the real files, as read_dir delivers them.
Payloads == {VirtualFileData(q, disk[q].kind, FALSE) : q \in DOMAIN disk}

\* The children of parent `par` that carry the folded name of a payload.
SameLabel(T, par, weight) ==
    {e \in edges(T, par) : e.weight = to_ascii_lowercase(The(file_name(weight.path)))}

\* C14: below every parent each folded label is on at most one outgoing
\* edge, and installing a child whose folded name is already there puts the
\* new payload on the node that is there (same node index), adding no edge.
C14_LabelUniqueness ==
    /\ \A e1, e2 \in tree.edges :
          (e1.source = e2.source /\ e1.weight = e2.weight) => e1 = e2
    /\ ~tree.poisoned =>
          \A par \in Present(tree), weight \in Payloads :
              SameLabel(tree, par, weight) # {} =>
                  LET put == update_child(tree, par, weight)
                  IN /\ put.idx = The({e.target : e \in SameLabel(tree, par, weight)})
                     /\ put.t.edges = tree.edges
                     /\ put.t.nodes = [tree.nodes EXCEPT ![put.idx] = weight]
                     /\ put.t.free = tree.free

\* mid was mapped over base: "ab" was there, still has one edge, and now
\* carries mid's path.
C14_Witness ==
    /\ last.op = "map_directory" /\ last.real = mid /\ last.snap.ok
    /\ Cardinality({e \in edges(tree, 0) : e.weight = n_ab}) = 1
    /\ translate_path(tree, VP(TRUE, <<n_ab>>)) = Some(<<n_mid, n_aB>>)

\* C7: the node made at construction stays the root: present at index 0 with
\* its payload, without a parent, and found at "/".
C7_RootSafety ==
    /\ contains_node(tree, 0)
    /\ tree.nodes[0] = VirtualFileData(surface, "Directory", TRUE)
    /\ {e \in tree.edges : e.target = 0} = {}
    /\ find_index(tree, RootPath) = Some(0)

\* C8: every node is reachable from the root, no node lies on a cycle, and
\* every node other than the root has exactly one incoming edge.
C8_TreeShape ==
    ~tree.poisoned =>
        /\ Present(tree) \subseteq Reach(tree, {0})
        /\ \A n \in Present(tree) : n \notin Reach(tree, neighbors(tree, n))
        /\ \A n \in Present(tree) :
              ~tree.nodes[n].is_root => Cardinality({e \in tree.edges : e.target = n}) = 1

----------------------------------------------------------------------------
(* Properties of the handle table *)

\* C9: every handle in the handle table targets a node that is present in the
\* tree and is of kind Directory.
C9_HandleTable ==
    \A e \in tree.handles :
        contains_node(tree, e.node) /\ tree.nodes[e.node].kind = "Directory"

\* The node a handle was opened on is still there, and is a directory.
StillDirectory(T, h) ==
    /\ h \notin stale
    /\ contains_node(T, NodeOf(T, h))
    /\ T.nodes[NodeOf(T, h)].kind = "Directory"

\* C10: for a live handle, view_dir succeeds exactly when the node the handle
\* was opened on still exists and is a directory.
C10_HandleBijection ==
    \A h \in HandleKeys(tree) :
        (view_dir(tree, h).res = "Ok") <=> StillDirectory(tree, h)

\* C11: close_dir(h) removes only h: afterwards view_dir(h) is not-found,
\* every other handle still maps to the node it mapped to, nodes, edges and
\* free slots are as before, and closing a handle that is not in the table
\* (a second close of h included) changes nothing.
C11_CloseDir ==
    [][\A h \in Handles :
          CloseDirStep(h) =>
              /\ view_dir(tree', h).res = "NotFound"
              /\ {e \in tree'.handles : e.handle # h} = {e \in tree.handles : e.handle # h}
              /\ [tree' EXCEPT !.handles = {}] = [tree EXCEPT !.handles = {}]
              /\ (~is_dir_open(tree, h) => tree' = tree)]_vars

\* An open handle was closed while another one stayed open.
C11_Witness == last.op = "close_dir" /\ last.snap.ok /\ tree.handles # {}

\* C12: a successful open_dir adds exactly one entry, under a handle that was
\* not in the table before the call, and leaves every other entry as it was,
\* so that the live handles are pairwise different even on one directory;
\* open_dir on a path that does not resolve fails with not-found and adds no
\* handle.
C12_FreshHandle ==
    [][last'.op = "open_dir" =>
          /\ Cardinality(HandleKeys(tree')) = Cardinality(tree'.handles)
          /\ IF contains(tree, last'.a)
             THEN /\ last'.res = "Ok"
                  /\ \E h \in Handles \ HandleKeys(tree) :
                        tree'.handles = tree.handles \cup
                            {[handle |-> h, node |-> The(find_index(tree, last'.a))]}
             ELSE /\ last'.res = "NotFound"
                  /\ tree'.handles = tree.handles]_vars

\* Two handles are open on one directory, the second just opened.
C12_Witness ==
    /\ last.op = "open_dir" /\ last.res = "Ok"
    /\ \E e1, e2 \in tree.handles : e1.handle # e2.handle /\ e1.node = e2.node

\* C15: view_dir(h) returns one entry for each child edge of the handle's
\* directory and no other: the entry's name is the final component of the
\* child's real path as the file is named on disk, not the folded label, and
\* its kind is the child's kind.
C15_ViewDir ==
    \A h \in HandleKeys(tree) :
        LET listing == view_dir(tree, h)
            out == edges(tree, NodeOf(tree, h))
        IN /\ listing.res = "Ok"
           /\ BagCardinality(listing.entries) = Cardinality(out)
           /\ \A e \in out :
                 /\ tree.nodes[e.target].path \in DOMAIN disk
                 /\ BagIn(DirectoryEntry(Last(tree.nodes[e.target].path),
                                         tree.nodes[e.target].kind), listing.entries)

\* A handle is open on a directory with two children, one of them named on
\* disk in another case than its label.
C15_Witness ==
    \E h \in HandleKeys(tree) :
        /\ Cardinality(edges(tree, NodeOf(tree, h))) >= 2
        /\ \E e \in edges(tree, NodeOf(tree, h)) :
              Last(tree.nodes[e.target].path) # e.weight

----------------------------------------------------------------------------
(* Properties of the mounted filesystem *)

\* The filesystem is mounted again, in the session after the one of the last
\* callback, and no callback has run since.
MountedAgain == phase.pos = "mounted" /\ phase.sessions = last.session + 1

\* C3: a path removed by a successful unlink or rmdir does not resolve once the
\* filesystem is constructed, attached and mounted again with the same
\* arguments over the same backing directories.
C3_DeletionPersists ==
    (MountedAgain /\ last.op \in {"unlink", "rmdir"} /\ last.res = "Ok") =>
        ~contains(tree, last.a)

\* C5: after a successful rename(a, b) and a new construction and mount with
\* the same arguments over the same backing directories, b resolves to the real
\* file a resolved to before the rename and a does not resolve.
C5_RenamePersists ==
    (MountedAgain /\ last.op = "rename" /\ last.res = "Ok") =>
        /\ translate_path(tree, last.b) = Some(last.real)
        /\ ~contains(tree, last.a)

\* C6: unlink, rmdir and rename leave every real file and directory, and its
\* contents, as they were.  (The history names the last callback: a step into
\* a state whose last callback is one of the three is that callback, or a
\* step of the lifecycle after it.)
C6_VisibleNamespaceOnly ==
    [][last'.op \in {"unlink", "rmdir", "rename"} => disk' = disk]_vars

\* A file was unlinked: its path no longer resolves, the real file it resolved
\* to is still there and reads as before.
C6_Witness ==
    /\ last.op = "unlink" /\ last.res = "Ok"
    /\ ~contains(tree, last.a)
    /\ last.real \in DOMAIN disk
    /\ disk[last.real] = File("x")

\* The transformation a callback hands to transform.
LoggedBy(op) == IF op.op = "rename" THEN Relocation(op.a, op.b) ELSE Deletion(op.a)

\* The state after the step is one that a successful unlink, rmdir or rename
\* left.
Transformed == last'.op \in {"unlink", "rmdir", "rename"} /\ last'.res = "Ok"

\* The step appended the transformation of that callback to the cache file.
Appended == cache' = update_cache(Append(cache.list, LoggedBy(last')))

\* C17: once the filesystem is constructed, the list in the cache file changes
\* only in a step in which unlink, rmdir or rename succeeds, and then by
\* getting that call's transformation appended; in every other step (mkdir,
\* a failing callback, attach, mount, unmount) the cache file stays as it is.
C17_CacheTracksTransforms ==
    [][phase.pos # "down" =>
          /\ cache' = cache \/ (Transformed /\ Appended)
          /\ (Transformed /\ last' # last) => Appended]_vars

\* A rename succeeded and its Relocation is the second entry of the cache.
C17_Witness ==
    /\ last.op = "rename" /\ last.res = "Ok"
    /\ Len(cache.list) = 2
    /\ cache.list[2] = Relocation(last.a, last.b)

\* The step is a construction: new was called.
Constructing == phase.pos = "down" /\ phase'.sessions # phase.sessions

\* C16: when new calls apply_cache on the tree it has just built and some
\* entries of the cache file are no longer valid against that tree, the
\* cache file afterwards holds the entries that were valid, in their order,
\* and those entries have been applied to the tree.
C16_CacheHealing ==
    [][Constructing =>
          LET fresh == fresh_tree(disk, Overlay, phase.ord).t
              loaded == read_cache(created(cache)).list
              kept == SelectSeq(loaded, LAMBDA tr : is_valid(tr, fresh))
          IN kept # loaded =>
                /\ cache' = update_cache(kept)
                /\ apply_each(fresh, kept).res = "Ok"
                /\ tree' = apply_each(fresh, kept).t]_vars

\* The step is a call of unlink, rmdir or rename on the mounted filesystem
\* (a call that changes nothing and ends as the call before it did is no step).
Edited ==
    /\ phase.pos = "mounted"
    /\ last'.op \in {"unlink", "rmdir", "rename"}
    /\ <<tree, last>> # <<tree', last'>>

\* C35: when unlink, rmdir or rename returns an error, the tree with its
\* handle table and the cache file are as they were before the call.
C35_FailureAtomicity ==
    [][(Edited /\ last'.res # "Ok") => (tree' = tree /\ cache' = cache)]_vars

\* C38: a transformation that transform applied to the tree and appended to
\* the cache file was valid against the tree as it was before the call: its
\* source resolved and, for a Relocation, its destination did not.
C38_AppliedWereValid ==
    [][(Edited /\ last'.res = "Ok") => is_valid(LoggedBy(last'), tree)]_vars

----------------------------------------------------------------------------
(* Properties of construction *)

\* C18: every load of the cache file takes an absent, an empty and an
\* undecodable file for the empty list: new, and unlink, rmdir and rename,
\* end as they would have ended over a cache file holding the empty list.
C18_CacheLoads ==
    [][/\ (Constructing /\ cache.kind \in {"absent", "invalid"}) =>
             LET ref == ModcrabFS_new(disk, last'.real, update_cache(<<>>), last'.snap.real,
                                      phase.ord)
             IN /\ last'.res = ref.res
                /\ ref.res = "Ok" => (tree' = ref.fs.tree /\ cache' = ref.fs.cache)
       /\ (/\ last'.op \in {"unlink", "rmdir", "rename"}
           /\ <<tree, last>> # <<tree', last'>>
           /\ cache.kind \in {"absent", "invalid"}) =>
             LET ref == transform([Self EXCEPT !.cache = update_cache(<<>>)], LoggedBy(last'))
             IN /\ last'.res = ref.res
                /\ tree' = ref.fs.tree
                /\ cache' = IF ref.res = "Ok" THEN ref.fs.cache ELSE cache]_vars

\* The mountpoint and the last entry of the overlay name one directory.
OnSurface(d, mountpoint, overlay) ==
    /\ overlay # <<>>
    /\ canonicalize(d, mountpoint) # None
    /\ canonicalize(d, mountpoint) = canonicalize(d, Last(overlay))

\* C19: new returns an error, and there is no filesystem, when the overlay is
\* empty and when the mountpoint, canonicalized, is the canonicalized last
\* entry of the overlay.
C19_NewRejects ==
    (last.op = "new" /\ (last.snap.real = <<>> \/ OnSurface(disk, last.real, last.snap.real))) =>
        /\ last.res # "Ok"
        /\ phase.pos = "down"
        /\ tree = NoTree

\* new was given a mountpoint that is a link to the surface, and refused.
C19_Witness ==
    /\ last.op = "new" /\ last.res = "InvalidInput"
    /\ last.real = SurfaceLink
    /\ last.snap.real = Overlay

\* C20: new returns an error when one of the paths it is given does not
\* canonicalize: the mountpoint, the cache path, or any entry of the overlay,
\* the lower layers included.
C20_NewCanonicalizes ==
    (/\ last.op = "new"
     /\ \/ canonicalize(disk, last.real) = None
        \/ last.snap.kind = "unreachable"
        \/ \E i \in DOMAIN last.snap.real : canonicalize(disk, last.snap.real[i]) = None) =>
        last.res # "Ok"

----------------------------------------------------------------------------
(* Properties of the callbacks on attributes, contents and directories *)

\* C21: chmod, chown and utimens on a path that names a Directory node return
\* ENOTSUP and issue no system call, with an fh and without one; on a path
\* that names another node they issue their call, by path on the node's real
\* file.  (A poisoned lock is fatal to every callback: the calls are those
\* made while the lock is sound.)
C21_DirectoriesRefuseAttributes ==
    [][(last'.op \in {"chmod", "chown", "utimens"} /\ ~tree.poisoned) =>
          /\ is_dir(tree, last'.a) =>
                last'.res = "ENOTSUP" /\ last'.snap.kind = "" /\ last'.real = <<>>
          /\ (contains(tree, last'.a) /\ ~is_dir(tree, last'.a)) =>
                /\ last'.snap.kind # ""
                /\ last'.res # "ENOTSUP"
                /\ last'.snap.real = <<>> => last'.real = RealOf(tree, last'.a)]_vars

\* utimens with an fh on the attach point.
C21_Witness ==
    /\ last.op = "utimens"
    /\ last.a = VP(TRUE, <<n_S>>)
    /\ last.snap.ok
    /\ last.snap.real # <<>>
    /\ last.res = "ENOTSUP"

\* C22: truncate on a path that names a Directory node returns ENOTSUP and
\* issues no system call, as chmod, chown and utimens do.
C22_DirectoriesRefuseTruncate ==
    [][(last'.op = "truncate" /\ is_dir(tree, last'.a)) =>
          last'.res = "ENOTSUP" /\ last'.snap.kind = ""]_vars

\* The callbacks that take a path and look it up.
ByPath ==
    {"opendir", "open", "readlink", "chmod", "chown", "truncate", "utimens", "unlink",
     "rmdir", "rename"}

\* C23: a callback given a path that does not resolve (chmod, chown, truncate
\* and utimens without an fh) returns ENOENT; it does not panic and it leaves
\* the lock on the tree unpoisoned.
C23_UnresolvedIsENOENT ==
    [][(last'.op \in ByPath /\ ~contains(tree, last'.a) /\ last'.snap.real = <<>>
            /\ ~tree.poisoned) =>
          io_to_libc_error(last'.res) = "ENOENT" /\ ~tree'.poisoned]_vars

\* C30: getattr with an fh that is no open directory handle returns the fstat
\* of the fh, whether or not the path resolves to a file below the mountpoint;
\* the stat through the shadowed directory and the stat of the tree are for
\* the other calls.
C30_GetattrPrefersFh ==
    [][(/\ last'.op = "getattr"
        /\ ~tree.poisoned
        /\ last'.snap.real # <<>>
        /\ ~is_dir_open(tree, Head(last'.snap.real))) =>
          last'.snap.kind = "fstat" /\ last'.real = <<>>]_vars

\* C40: opendir never hands out the handle 0, and readdir on a handle that
\* opendir handed out and releasedir has not yet taken back returns the
\* listing, not an error.
C40_OpendirHandlesServeReaddir ==
    [][/\ (last'.op = "opendir" /\ last'.res = "Ok") => 0 \notin HandleKeys(tree')
       /\ (/\ last'.op = "readdir"
           /\ ~tree.poisoned
           /\ is_dir_open(tree, Head(last'.snap.real))) => last'.res = "Ok"]_vars

----------------------------------------------------------------------------
(* Properties of attach and mount *)

Mounting == phase.pos = "attached" /\ phase'.pos = "mounted"

\* C26: when mount has mapped the surface, every entry of the surface directory
\* resolves at its virtual path to a real path of the surface, whatever the
\* lower layers and the attached overlays had put at that folded name.
C26_SurfacePriority ==
    [][Mounting => LaterLayerWins(tree', disk, surface, RootPath)]_vars

\* The surface's S/G took the place of the attached overlay's g, and its AB
\* that of the lower layers' ab.
C26_Witness ==
    /\ phase.pos = "mounted"
    /\ last.op = "attach" /\ last.res = "Ok" /\ last.a = AttachPoint
    /\ last.snap.real = Secondary
    /\ translate_path(tree, VP(TRUE, <<n_s, n_g>>)) = Some(<<n_top, n_S, n_G>>)
    /\ translate_path(tree, VP(TRUE, <<n_ab>>)) = Some(<<n_top, n_AB>>)

\* The layers of an overlay that canonicalize, in their order.
Canonical(d, overlay) ==
    LET found == SelectSeq(overlay, LAMBDA l : canonicalize(d, l) # None)
    IN [i \in DOMAIN found |-> The(canonicalize(d, found[i]))]

\* The layers that hold an entry with the folded relative path `rel`.
Holders(d, layers, rel) ==
    {j \in DOMAIN layers :
        \E q \in Entries(d, layers[j]) : FoldComps(Rel(layers[j], q)) = rel}

\* Every entry of every layer resolves below `at`, at its relative path, to a
\* real path of the last layer that holds an entry of that folded relative
\* path, with the kind that path has on disk.
OverlayWins(T, d, layers, at) ==
    \A i \in DOMAIN layers :
        \A q \in Entries(d, layers[i]) :
            LET rel == FoldComps(Rel(layers[i], q))
                top == CHOOSE j \in Holders(d, layers, rel) :
                           \A k \in Holders(d, layers, rel) : k <= j
                path == VP(TRUE, at.comps \o Rel(layers[i], q))
            IN /\ translate_path(T, path) # None
               /\ The(translate_path(T, path)) \in
                     {q2 \in Entries(d, layers[top]) : FoldComps(Rel(layers[top], q2)) = rel}
               /\ T.nodes[The(find_index(T, path))].kind = d[The(translate_path(T, path))].kind

\* The label sequences that are not at or below the path `at`.
Outside(at, labels) ==
    Len(labels) < Len(at.comps) \/ SubSeq(labels, 1, Len(at.comps)) # FoldComps(at.comps)

\* The paths outside the subtree at `at` resolve in T2 as they did in T1.
SameOutside(T1, T2, at) ==
    \A labels \in PathsFrom(T1, 0, {0}) \cup PathsFrom(T2, 0, {0}) :
        Outside(at, labels) => Resolved(T1, labels) = Resolved(T2, labels)

\* C27: attach(p, layers) makes a virtual Directory node at p where p does not
\* resolve and its parent does; where the parent does not resolve either it
\* fails with not-found and leaves the tree as it was.  After a successful
\* attach every entry of every layer resolves below p to a real path of the
\* last layer holding that folded name, and every path outside the subtree at
\* p resolves as before.
C27_Attach ==
    [][(last'.op = "attach" /\ phase.pos = "built") =>
          LET at == last'.a
              done == attach(Self, at, last'.snap.real, phase.ord)
              orphan == parent(at) = None \/ ~contains(tree, The(parent(at)))
          IN /\ (~contains(tree, at) /\ orphan) =>
                    last'.res = "NotFound" /\ done.fs.tree = tree
             /\ (~contains(tree, at) /\ ~orphan) =>
                    /\ last'.res = "Ok"
                    /\ is_dir(tree', at)
                    /\ translate_path(tree', at) = Some(<<VIRTUAL>> \o at.comps)
             /\ last'.res = "Ok" =>
                    /\ OverlayWins(tree', disk, Canonical(disk, last'.snap.real), at)
                    /\ SameOutside(tree, tree', at)]_vars

\* Two layers attached at a new name: "ab" of the upper and "D/x" of the lower
\* layer resolve below it.
C27_Witness ==
    /\ phase.pos = "attached"
    /\ last.op = "attach" /\ last.res = "Ok" /\ ~last.snap.ok
    /\ last.snap.real = <<base, mid>>
    /\ translate_path(tree, VP(TRUE, <<n_s, n_ab>>)) = Some(<<n_mid, n_aB>>)
    /\ translate_path(tree, VP(TRUE, <<n_s, n_d, n_x>>)) = Some(<<n_base, n_D, n_x>>)
    /\ translate_path(tree, VP(TRUE, <<n_ab>>)) = Some(<<n_mid, n_aB>>)

----------------------------------------------------------------------------
(* Properties of remove_file *)

\* What remove_file(p) comes to on the tree T when p resolves to a node other
\* than the root: the payload is returned, the node and its descendants are
\* gone and nothing else is, no path at or below p resolves, every other path
\* resolves as before.
RemovesSubtree(T, p) ==
    LET node == The(find_index(T, p))
        done == remove_file(T, p)
    IN /\ done.res = "Ok"
       /\ done.data = T.nodes[node]
       /\ Present(done.t) = Present(T) \ Reach(T, {node})
       /\ \A labels \in PathsFrom(T, 0, {0}) :
             ~Outside(p, labels) => find_index(done.t, VP(TRUE, labels)) = None
       /\ SameOutside(T, done.t, p)

\* C28: remove_file(p) on a path that resolves to a node other than the root
\* returns the payload of the node and removes that node and its descendants
\* and no other; every path not at or below p resolves as before.  On a path
\* that does not resolve it fails with not-found and changes nothing.
C28_RemoveFile ==
    ~tree.poisoned =>
        \A p \in RemovePaths :
            /\ (contains(tree, p) /\ find_index(tree, p) # Some(0)) => RemovesSubtree(tree, p)
            /\ ~contains(tree, p) =>
                  remove_file(tree, p).res = "NotFound" /\ remove_file(tree, p).t = tree

----------------------------------------------------------------------------
(* Properties of callbacks in parallel *)

Holds(t) == lock.readers[t] > 0 \/ lock.writer = t

\* The thread is asking for the lock.
Requests(t) == thread[t].pc \in {"read", "real_path", "write"}

InFlight == {t \in Threads : thread[t].pc # "idle"}

\* The thread can take its next step.
CanStep(t) ==
    IF thread[t].pc \in {"read", "real_path"} THEN read_granted(lock, WaitingWriters)
    ELSE IF thread[t].pc = "write" THEN write_granted(lock)
    ELSE thread[t].pc # "idle"

\* C24: no callback asks for the lock while it holds it, and the callbacks in
\* flight are never all held up at the lock: one of them can always go on, so
\* that none waits for ever.
C24_DeadlockFreedom ==
    /\ \A t \in Threads : Requests(t) => ~Holds(t)
    /\ InFlight # {} => \E t \in InFlight : CanStep(t)

IsPrefix(s1, s2) == Len(s1) <= Len(s2) /\ SubSeq(s2, 1, Len(s1)) = s1

\* C25: the cache file holds the transformations that were applied to the
\* tree, each once and in the order the tree took them: at any time a prefix
\* of them, and all of them once no transform is in flight.
C25_TransformsSerialized ==
    /\ IsPrefix(cache.list, ghost.applied)
    /\ (\A t \in Threads : thread[t].pc \notin InTransform) => cache.list = ghost.applied

\* Two transformations are in the file, the second by a thread that waited for
\* the writer role while the first was carried out.
C25_Witness ==
    /\ Len(cache.list) = 2
    /\ cache.list = ghost.applied
    /\ cache.list[1].type # cache.list[2].type
    /\ \A t \in Threads : thread[t].pc = "idle"

\* C29: while a callback holds the reader role the tree is as the last writer
\* left it on release: no reader sees the tree between the steps of a
\* transformation, such as move_file between taking a node out and putting it
\* below its new parent.
C29_ReadersSeeCommitted ==
    \A t \in Threads : lock.readers[t] > 0 => tree = ghost.stable

\* A reader waits for the lock while move_file has taken the node out.
C29_Witness ==
    \E t, u \in Threads :
        /\ thread[t].pc = "install"
        /\ tree # ghost.stable
        /\ thread[u].pc = "read"

----------------------------------------------------------------------------
(* Properties of a construction over the cache file of an earlier session *)

\* The step is a construction after an earlier session.
Restarting == Constructing /\ phase.sessions >= 1

\* C36: a construction with the arguments of the session before it, over the
\* cache file that session's successful callbacks left, succeeds: every entry
\* that passes the validity filter of apply_cache applies without error.
C36_RestartSucceeds ==
    [][Restarting =>
          /\ phase'.pos = "built"
          /\ LET fresh == fresh_tree(disk, Overlay, phase.ord).t
                 kept == SelectSeq(read_cache(cache).list, LAMBDA tr : is_valid(tr, fresh))
             IN apply_each(fresh, kept).res = "Ok"]_vars

\* The label sequences some entry of the surface folds to.
SurfaceHeld(d, labels) ==
    \E q \in Entries(d, surface) : FoldComps(Rel(surface, q)) = labels

\* What the tree resolves among the names backed by the lower layers only:
\* the label sequences no entry of the surface folds to that lead to a real
\* path of a lower layer, each with that real path.
LowerView(T, d) ==
    {<<labels, Resolved(T, labels).path>> :
        labels \in {l \in PathsFrom(T, 0, {0}) :
                       /\ ~SurfaceHeld(d, l)
                       /\ Resolved(T, l).path \in Entries(d, base) \cup Entries(d, mid)}}

\* C37: over unchanged backing directories, and among the names backed by the
\* lower layers only, the tree a construction has built once apply_cache has
\* run resolves the paths the tree resolved at the shutdown before it, to the
\* same real paths.
C37_ReplayEquivalence ==
    [][(Restarting /\ phase'.pos = "built") =>
          LowerView(tree', disk) = LowerView(ghost.stable, disk)]_vars

----------------------------------------------------------------------------
(* Properties of the kinds of nodes *)

\* C39: only directories have children: every node of the tree with an
\* outgoing edge is of kind Directory.
C39_OnlyDirectoriesHaveChildren ==
    \A e \in tree.edges :
        contains_node(tree, e.source) => tree.nodes[e.source].kind = "Directory"

----------------------------------------------------------------------------
(* Properties of the creation callbacks *)

\* The callback of the step created a name the tree did not hold, below a
\* directory that resolved.
Created(op) ==
    /\ phase.pos = "mounted"
    /\ last' # last
    /\ last'.op = op
    /\ last'.snap.ok

\* The new name resolves to the real path made for it under the surface.
Registered(T, d, op) ==
    /\ translate_path(T, op.b) = Some(op.real)
    /\ op.real \in DOMAIN d
    /\ T.nodes[The(find_index(T, op.b))].kind = d[op.real].kind

\* C31: after mkdir, symlink or create(parent, name) succeeds where parent
\* resolves and parent/name was not in the tree, parent/name resolves, in
\* whichever case it is written, to the real path created under the surface
\* directory, the node has the kind of what was created, and the cache is as
\* it was.
C31_CreationsRegister ==
    [][\A op \in {"mkdir", "symlink", "create"} :
          (Created(op) /\ last'.res = "Ok") =>
              /\ Registered(tree', disk', last')
              /\ \A q \in PathPerms(last'.b.comps) :
                     translate_path(tree', VP(TRUE, q)) = Some(last'.real)
              /\ cache' = cache]_vars

\* C32: mknod(parent, name), where parent resolves and parent/name is not in
\* the tree, performs the real mknod, and where it succeeds parent/name
\* resolves afterwards.
C32_MknodRegisters ==
    [][Created("mknod") =>
          /\ last'.snap.kind = "mknod"
          /\ last'.res = "Ok" => contains(tree', last'.b)]_vars

\* C33: after link(path, newparent, newname) succeeds with newparent/newname
\* not in the tree before, newparent/newname resolves to the hard link made
\* under the surface directory.
C33_LinkRegisters ==
    [][(phase.pos = "mounted" /\ last' # last /\ last'.op = "link" /\ last'.res = "Ok"
        /\ ~contains(tree, last'.b)) =>
          translate_path(tree', last'.b) = Some(last'.real)]_vars

----------------------------------------------------------------------------
(* Properties of the descriptors of open files *)

\* C34: read, write, flush and fsync leave every descriptor open, the one they
\* work on included; a descriptor open before a callback and closed after it
\* was closed by release, called on that descriptor.
C34_DescriptorDiscipline ==
    [][/\ last'.op \in FileIO => fds' = fds
       /\ \A e \in fds \ fds' : last'.op = "release" /\ last'.snap.real = <<e.fd>>]_vars

\* fsync succeeded on a descriptor that is still open, beside another one.
C34_Witness ==
    /\ last.op = "fsync"
    /\ last.res = "Ok"
    /\ Head(last.snap.real) \in OpenFds(fds)
    /\ Cardinality(fds) = 2

====
